---- MODULE Spec2Model ----
(***************************************************************************)
(* Model of the iot-swarm simulation engine: the per-device run loop       *)
(* (iotswarm/devices.py, BaseDevice.run), the swarm supervisor and its     *)
(* snapshot file (iotswarm/swarm.py), the data sources (iotswarm/db.py)    *)
(* and the publishers (iotswarm/messaging).                                *)
(*                                                                         *)
(* The device tasks are asyncio tasks on one event loop: a task runs       *)
(* without interruption from one await to the next.  `running` holds the   *)
(* task that currently owns the event loop; the steps of one iteration     *)
(* are separate actions only so that a stop of the whole process can fall  *)
(* between them.                                                           *)
(***************************************************************************)
EXTENDS Integers, Sequences, FiniteSets, TLC

(* ---------------------------- bounds ----------------------------------- *)

MaxCycles == 2
MaxRows == 2
MaxRuns == 2
MaxFileRows == 3
MaxOffset == 5
MaxSends == 3
MaxKeys == 2
MaxBatch == 2
MaxColumn == 3
MaxCallbacks == 3

\* the largest max_cycles a caller sets on a loaded swarm
MaxResumeCycles == MaxCycles + 1
\* devices without a maximum are followed up to this cycle
CycleCap == MaxCycles

\* the devices of the swarm
Devices == {"d1", "d2"}

\* no task owns the event loop
NoTask == "none"

SourceKinds == {"MockDB", "LoopingCsvDB", "LoopingSQLite3"}
ConnKinds == {"MockMessageConnection", "IotCoreMQTTConnection"}
Dirs == {"class", "instance"}
Probabilities == {0, 50, 100}

\* site ids, paths of data files, and the tables a data file can hold: a
\* table is the sequence of the SITE_ID of its rows, a row is known by its
\* position in the file
Sites == {"ALIC1", "MORLY"}
Paths == {"a.db", "b.db"}
Tables == UNION {[1..n -> Sites] : n \in 0..MaxFileRows}
Offsets == 0..MaxOffset
RandomPercents == {0, 50, 99}

(* ---------------------------- state ------------------------------------ *)

VARIABLES
    data_source,          \* kind of the data source shared by the devices
    rows,                 \* rows[d]: number of rows the source holds for device d's site
    connection,           \* kind of the message connection shared by the devices
    base_directory,       \* "class": Swarm.base_directory, "instance": set in __init__
    no_send_probability,  \* no_send_probability[d]
    uneven_row,           \* index of the source row that is a batch of rows
                          \* with unequal column sets, or NoUnevenRow
    max_cycles,           \* max_cycles[d]
    cycle,                \* cycle[d]
    pc,                   \* pc[d]: position of device d's task in BaseDevice.run
    running,              \* the task that owns the event loop, or NoTask
    payload,              \* payload[d]: local variable of run
    send_status,          \* send_status[d]: local variable of run
    iter,                 \* iter[d]: what the current iteration of d has done so far
    proc,                 \* state of the process that runs Swarm.run
    run,                  \* number of the process (1 = the first run)
    stopped,              \* how the previous process ended ("no": there was none)
    disk,                 \* disk[dir]: content of <dir>/<name>.pkl
    published,            \* published[d]: publishes acknowledged to d over all runs
    files,                \* files[path]: the table held by the data file at path
    source,               \* a looping data source object
    restored,             \* the object unpickled from the pickle of source
    query,                \* the last query_latest_from_site call and its result
    connected_flag,       \* IotCoreMQTTConnection.connected_flag
    callbacks,            \* the callbacks the connection has made, in order
    handle,               \* "built": self.connection is the mqtt connection;
                          \* "absent": the instance has no connection of its own
    call,                 \* the send_message call in progress
    sends,                \* send_message calls made on this instance
    delivered,            \* messages the broker acknowledged
    values,               \* the payload given to CR1000XDevice._format_payload
    envelope,             \* what _format_payload returned, or raised
    column,               \* the data_values given to CR1000XField
    data_type,            \* the data_type the field got from them
    site_ids,             \* two site IDs, each a sequence of code points
    serial_numbers,       \* the serial numbers derived from them
    state_files,          \* the state file of a StateTracker and its backup
    upload_state,         \* StateTracker.state
    uploader,             \* position of the process that runs a LiveUploader
    payloads,             \* what get_latest_payloads returned
    position,             \* index in payloads of the payload the loop is at
    send_calls,           \* the payloads send_payload was called with
    attempt,              \* the send_payload call in progress
    bucket,               \* the payloads written to the object store
    gets,                 \* number of get_latest_payloads calls
    directories,          \* the directories that exist at and under
                          \* Swarm.base_directory ("": the base directory)
    swarm_files,          \* swarm_files[f]: what the file f holds
    listing,              \* what the last _list_swarms call returned
    checked               \* the last _swarm_exists call and its result

swarm_vars == <<data_source, rows, connection, base_directory, uneven_row,
                no_send_probability, max_cycles, cycle, pc, running, payload,
                send_status, iter, proc, run, stopped, disk, published>>

\* the state of the components that are exercised on their own
source_vars == <<files, source, restored, query>>

mqtt_vars == <<connected_flag, callbacks, handle, call, sends, delivered>>

format_vars == <<values, envelope, column, data_type, site_ids,
                 serial_numbers>>

upload_vars == <<state_files, upload_state, uploader, payloads, position,
                 send_calls, attempt, bucket, gets>>

folder_vars == <<directories, swarm_files, listing, checked>>

units == <<source_vars, mqtt_vars, format_vars, upload_vars, folder_vars>>

vars == <<swarm_vars, units>>

config == <<data_source, rows, connection, base_directory, uneven_row,
            no_send_probability>>

(* ---------------------------- values ----------------------------------- *)

NonePayload == [tag |-> "None", idx |-> 0]
EmptyList == [tag |-> "List", idx |-> 0]
Row(i) == [tag |-> "Row", idx |-> i]
\* in place of a value: the call raised an exception
ErrorPayload == [tag |-> "Error", idx |-> 0]

NoIteration == [skipped |-> FALSE, called |-> FALSE, acked |-> FALSE,
                wrote |-> FALSE, nodata |-> FALSE, start |-> 0]

NoDevices == [d \in Devices |-> [cycle |-> 0, max_cycles |-> 0,
                                   no_send_probability |-> 0]]

\* no file at the path
Missing == [tag |-> "Missing", name |-> "", base_directory |-> "",
            devices |-> NoDevices]
\* a file that holds no complete pickle (empty, or cut off)
Partial == [tag |-> "Partial", name |-> "", base_directory |-> "",
            devices |-> NoDevices]

IsSwarmFile(f) == f.tag = "Swarm"

SwarmName == "swarm"

(* ---------------------------- data sources ----------------------------- *)

\* variant: the mock source reports "no data"
MockDB_query_latest_from_site_None == NonePayload

\* MockDB.query_latest_from_site
MockDB_query_latest_from_site == EmptyList

\* variant: an index past the last row gets the last row
LoopingCsvDB_query_latest_from_site_NoWrap(n, index) ==
    IF n = 0
      THEN ErrorPayload
      ELSE IF index < n THEN Row(index) ELSE Row(n - 1)

\* LoopingCsvDB.query_latest_from_site, for a site with n rows
LoopingCsvDB_query_latest_from_site(n, index) ==
    IF n = 0
      THEN ErrorPayload      \* index % len(data): ZeroDivisionError
      ELSE Row(index % n)

\* LoopingSQLite3._query_latest_from_site: LIMIT 1 OFFSET :offset
LoopingSQLite3_query(n, offset) ==
    IF offset < n THEN Row(offset) ELSE NonePayload

\* LoopingSQLite3.query_latest_from_site
LoopingSQLite3_query_latest_from_site(n, index) ==
    LET data == LoopingSQLite3_query(n, index)
        index2 == IF data = NonePayload THEN 0 ELSE index
    IN LoopingSQLite3_query(n, index2)

\* BaseDevice._get_payload
GetPayload(kind, n, c) ==
    IF kind = "LoopingSQLite3" THEN LoopingSQLite3_query_latest_from_site(n, c)
    ELSE IF kind = "LoopingCsvDB" THEN LoopingCsvDB_query_latest_from_site(n, c)
    ELSE MockDB_query_latest_from_site

(* ---------------------------- data files ------------------------------- *)

\* no object
NoSource == [kind |-> "None", db_file |-> "", connection |-> "", cursor |-> ""]
\* no call made yet
NoQuery == [of |-> "none", site |-> "", index |-> 0, result |-> NonePayload]

\* LoopingCsvDB.__init__ / LoopingSQLite3.__init__: connection is the data
\* read from, or the connection opened on, the file at the path
NewSource(kind, path) ==
    [kind |-> kind, db_file |-> path, connection |-> path,
     cursor |-> IF kind = "LoopingSQLite3" THEN path ELSE ""]

\* the rows of a site in file order: `connection.query("SITE_ID == @site_id")`
\* and `WHERE site_id = :site_id`
SiteRows(table, site) ==
    SelectSeq([i \in 1..Len(table) |-> i], LAMBDA i : table[i] = site)

\* variant: the index is clamped to the last row instead of wrapped
CsvQueryLatestFromSite_Clamp(table, site, index) ==
    LET data == SiteRows(table, site)
    IN  IF Len(data) = 0 THEN ErrorPayload
        ELSE IF index < Len(data) THEN Row(data[index + 1])
        ELSE Row(data[Len(data)])

\* LoopingCsvDB.query_latest_from_site on the table it has read
CsvQueryLatestFromSite(table, site, index) ==
    LET data == SiteRows(table, site)
    IN  IF Len(data) = 0
          THEN ErrorPayload      \* index % 0: ZeroDivisionError
          ELSE Row(data[(index % Len(data)) + 1])

\* LoopingSQLite3._query_latest_from_site: `LIMIT 1 OFFSET :offset`, fetchone
SqlFetchOne(table, site, offset) ==
    LET data == SiteRows(table, site)
    IN  IF offset < Len(data) THEN Row(data[offset + 1]) ELSE NonePayload

\* LoopingSQLite3.query_latest_from_site on the table its cursor reads
SqlQueryLatestFromSite(table, site, index) ==
    LET data == SqlFetchOne(table, site, index)
        index2 == IF data = NonePayload THEN 0 ELSE index
    IN  SqlFetchOne(table, site, index2)

\* query_latest_from_site of a data source object
QueryLatestFromSite(obj, site, index) ==
    IF obj.kind = "LoopingSQLite3"
      THEN SqlQueryLatestFromSite(files[obj.cursor], site, index)
      ELSE CsvQueryLatestFromSite(files[obj.connection], site, index)

\* LoopingSQLite3.__getstate__: the instance dict without connection, cursor
GetState(obj) == [kind |-> obj.kind, db_file |-> obj.db_file]

\* variant: the restored object opens a fixed path, not the stored one
SetState_DefaultPath(state) ==
    [kind |-> state.kind, db_file |-> state.db_file,
     connection |-> "a.db", cursor |-> "a.db"]

\* LoopingSQLite3.__setstate__: the connection and the cursor are opened
\* again from self.db_file
SetState(state) ==
    [kind |-> state.kind, db_file |-> state.db_file,
     connection |-> state.db_file, cursor |-> state.db_file]

(* ---------------------------- CR1000X payload -------------------------- *)

\* column names of a row
Keys == {"DATE_TIME", "date_time", "temp", "BattV"}
\* the names _steralize_payload gives to positional values: f"_{i}"
PositionalKeys == <<"_0", "_1", "_2", "_3", "_4", "_5">>

\* str.lower
Lower(k) == IF k = "DATE_TIME" THEN "date_time" ELSE k

\* a dict is the sequence of its keys in insertion order; the value a row
\* holds under a key is known by the row and the key
Dicts ==
    {r \in UNION {[1..n -> Keys] : n \in 0..MaxKeys} :
        \A i, j \in 1..Len(r) : r[i] = r[j] => i = j}

\* an element of a list of positional values: -1 is a value without
\* __iter__, n >= 0 an iterable of n values
Elements == -1..MaxKeys

\* the payloads: one mapping, a list of mappings (or the empty list), one
\* value that is not iterable, a non-empty list of positional values
Payloads ==
    {[shape |-> "mapping", rows |-> <<r>>, elems |-> <<>>] : r \in Dicts}
    \cup {[shape |-> "batch", rows |-> b, elems |-> <<>>] :
              b \in UNION {[1..n -> Dicts] : n \in 0..MaxBatch}}
    \cup {[shape |-> "scalar", rows |-> <<>>, elems |-> <<>>]}
    \cup {[shape |-> "positional", rows |-> <<>>, elems |-> e] :
              e \in UNION {[1..n -> Elements] : n \in 1..MaxBatch}}

\* no payload given
NoPayload == [shape |-> "none", rows |-> <<>>, elems |-> <<>>]
\* nothing formatted yet
NoEnvelope == [tag |-> "none", fields |-> <<>>, data |-> <<>>]
\* _format_payload raised
Raised(exception) == [tag |-> exception, fields |-> <<>>, data |-> <<>>]

\* the first n positional names
FirstKeys(n) == SubSeq(PositionalKeys, 1, n)

\* the smaller of two numbers: zip stops at the shorter sequence
Min(a, b) == IF a < b THEN a ELSE b

\* CR1000XDevice._steralize_payload: the list of dicts
SteralizePayload(v) ==
    IF v.shape = "mapping" THEN v.rows
    ELSE IF v.shape = "scalar" THEN <<FirstKeys(1)>>
    ELSE IF v.shape = "batch" THEN v.rows
    ELSE IF \E i \in 1..Len(v.elems) : v.elems[i] = -1
      THEN <<FirstKeys(Len(v.elems))>>
      ELSE [i \in 1..Len(v.elems) |->
               FirstKeys(Min(v.elems[1], v.elems[i]))]

\* the keys of `collected` after the first i dicts, in first-seen order
RECURSIVE CollectedKeys(_, _)
CollectedKeys(dicts, i) ==
    IF i = 0 THEN <<>>
    ELSE LET before == CollectedKeys(dicts, i - 1)
             seen == {before[j] : j \in 1..Len(before)}
         IN  before \o SelectSeq(dicts[i], LAMBDA k : k \notin seen)

\* collected[k]: the dicts that hold k, in order (a value is known by its
\* row and its key)
Collected(dicts, k) ==
    SelectSeq([i \in 1..Len(dicts) |-> i],
              LAMBDA i : \E j \in 1..Len(dicts[i]) : dicts[i][j] = k)

\* variant: only the lower-case name is looked for
TimeKey_CaseSensitive(keys) ==
    IF \E j \in 1..Len(keys) : keys[j] = "date_time"
      THEN CHOOSE j \in 1..Len(keys) :
              /\ keys[j] = "date_time"
              /\ \A m \in 1..(j - 1) : keys[m] # "date_time"
      ELSE 0

\* the position of the first key that is "date_time" in lower case, or 0
TimeKey(keys) ==
    IF \E j \in 1..Len(keys) : Lower(keys[j]) = "date_time"
      THEN CHOOSE j \in 1..Len(keys) :
              /\ Lower(keys[j]) = "date_time"
              /\ \A m \in 1..(j - 1) : Lower(keys[m]) # "date_time"
      ELSE 0

\* collected.pop(k): the keys without the one at position t
Pop(keys, t) ==
    IF t = 0 THEN keys
    ELSE SubSeq(keys, 1, t - 1) \o SubSeq(keys, t + 1, Len(keys))

\* variant: the values of a row are those the row itself holds
RowVals_OfRow(dicts, keys, i) ==
    [j \in 1..Len(dicts[i]) |-> [row |-> i, key |-> dicts[i][j]]]

\* `[x[i] for x in vals]`: the i-th value collected under every key
RowVals(dicts, keys, i) ==
    [j \in 1..Len(keys) |->
        [row |-> Collected(dicts, keys[j])[i], key |-> keys[j]]]

\* variant: the lengths of the rows are not compared
FormatPayload_NoLengthTest(v) ==
    LET dicts == SteralizePayload(v)
        n == Len(dicts)
        all == CollectedKeys(dicts, n)
        t == TimeKey(all)
        keys == Pop(all, t)
        time == IF t = 0 THEN [i \in 1..n |-> 0] ELSE Collected(dicts, all[t])
    IN  IF \/ Len(time) < n
           \/ \E j \in 1..Len(keys) : Len(Collected(dicts, keys[j])) < n
          THEN Raised("IndexError")
        ELSE [tag |-> "envelope",
              fields |-> keys,
              data |-> [i \in 1..n |->
                          [time |-> time[i], vals |-> RowVals(dicts, keys, i)]]]

\* CR1000XDevice._format_payload: head.fields (by name) and data
FormatPayload(v) ==
    LET dicts == SteralizePayload(v)
        n == Len(dicts)
        all == CollectedKeys(dicts, n)
        t == TimeKey(all)
        keys == Pop(all, t)
        time == IF t = 0 THEN [i \in 1..n |-> 0] ELSE Collected(dicts, all[t])
    IN  IF Cardinality({Len(dicts[i]) : i \in 1..n}) > 1
          THEN Raised("ValueError")
        ELSE IF \/ Len(time) < n
                \/ \E j \in 1..Len(keys) : Len(Collected(dicts, keys[j])) < n
          THEN Raised("IndexError")
        ELSE [tag |-> "envelope",
              fields |-> keys,
              data |-> [i \in 1..n |->
                          [time |-> time[i], vals |-> RowVals(dicts, keys, i)]]]

(* ---------------------------- CR1000X field type ----------------------- *)

\* Python values: the class, the number of an int that fits 32 bits, and
\* what the range tests see of the others ("int64": an int beyond 32 and
\* within 64 bits, "big": beyond 64 bits; "tiny", "large": a float outside
\* the normal 32-bit range; "iso": a str that datetime.fromisoformat takes)
PyValue(py, n, size) == [py |-> py, n |-> n, size |-> size]
PyNone == PyValue("NoneType", 0, "")
PyInt(n) == PyValue("int", n, "int32")
PyStr == PyValue("str", 0, "text")
PyFloat == PyValue("float", 0, "normal")

PyValues ==
    {PyNone, PyValue("bool", 1, ""), PyStr, PyValue("str", 0, "iso"),
     PyValue("datetime", 0, ""),
     PyInt(1), PyInt(0), PyInt(32767), PyInt(32768), PyInt(-32769),
     PyValue("int", 0, "int64"), PyValue("int", 0, "big"),
     PyFloat, PyValue("float", 0, "tiny")}

\* the lists of values of a column
Columns == UNION {[1..n -> PyValues] : n \in 0..MaxColumn}

\* variant: a string outranks every other type
Rank_StringHighest(type) ==
    CASE type = "xsi:nil" -> 0
      [] type = "xsd:string" -> 10
      [] type = "xsd:boolean" -> 2
      [] type = "xsd:dateTime" -> 3
      [] type = "xsd:short" -> 4
      [] type = "xsd:int" -> 5
      [] type = "xsd:long" -> 6
      [] type = "xsd:integer" -> 7
      [] type = "xsd:float" -> 8
      [] type = "xsd:double" -> 9

\* XMLDataTypes: the rank of a schema type
Rank(type) ==
    CASE type = "xsi:nil" -> 0
      [] type = "xsd:string" -> 1
      [] type = "xsd:boolean" -> 2
      [] type = "xsd:dateTime" -> 3
      [] type = "xsd:short" -> 4
      [] type = "xsd:int" -> 5
      [] type = "xsd:long" -> 6
      [] type = "xsd:integer" -> 7
      [] type = "xsd:float" -> 8
      [] type = "xsd:double" -> 9

\* CR1000XField._get_xsd_type of one value
GetXsdType(v) ==
    IF v.py = "NoneType" THEN "xsi:nil"
    ELSE IF v.py = "datetime" THEN "xsd:dateTime"
    ELSE IF v.py = "bool" THEN "xsd:boolean"
    ELSE IF v.py = "str"
      THEN IF v.size = "iso" THEN "xsd:dateTime" ELSE "xsd:string"
    ELSE IF v.py = "int"
      THEN IF v.size = "int32"
             THEN IF (v.n > 0 /\ v.n <= 32767) \/ (v.n < 0 /\ v.n >= -32768)
                    THEN "xsd:short"
                    ELSE "xsd:int"
           ELSE IF v.size = "int64" THEN "xsd:long"
           ELSE "xsd:integer"
    ELSE IF v.size \in {"tiny", "large"} THEN "xsd:double"
    ELSE "xsd:float"

\* CR1000XField._get_avg_xsd_type: the loop over the first i items
RECURSIVE GetAvgXsdType(_, _)
GetAvgXsdType(items, i) ==
    IF i = 0 THEN "xsi:nil"
    ELSE LET highest == GetAvgXsdType(items, i - 1)
             level == GetXsdType(items[i])
         IN  IF Rank(level) > Rank(highest) THEN level ELSE highest

\* CR1000XField(name, data_values=items).data_type
FieldDataType(items) == GetAvgXsdType(items, Len(items))

(* ---------------------------- publishers ------------------------------- *)

\* Python truth value of a payload: None and [] are falsy, a row dict is truthy
Truthy(p) == p.tag = "Row"

\* The values send_message can return for a payload
SendResults(kind, p) ==
    IF kind = "MockMessageConnection" THEN {TRUE}
    ELSE IF ~Truthy(p) THEN {FALSE}
    ELSE {TRUE, FALSE}

\* send_message can raise: the MQTT connection's publish, and the result of
\* its future, are called outside any try
SendCanRaise(kind, p) == kind = "IotCoreMQTTConnection" /\ Truthy(p)

\* the messages handed to send_message
Messages == {NonePayload, EmptyList, Row(0)}

\* no send_message call in progress
NoCall == [phase |-> "idle", message |-> NonePayload, connects |-> 0,
           issued |-> FALSE, result |-> "none"]

\* IotCoreMQTTConnection._connect: self.connection.connect().result(), tried
\* again on AwsCrtError until the backoff gives up and raises it
ConnectOutcomes(h) ==
    IF h = "absent" THEN {"AttributeError"}
    ELSE {"connected", "AwsCrtError", "RuntimeError"}

\* self.connection.publish(...) and status[0].result()
PublishOutcomes(h) ==
    IF h = "absent" THEN {"AttributeError"}
    ELSE {"packet_id", "no packet_id", "AwsCrtError"}

\* the callbacks given to mqtt_connection_builder.mtls_from_path
Callbacks == {"success", "failure", "resumed", "interrupted", "closed"}

\* variant: a failed connection attempt clears the flag
OnConnection_FailureClears(kind, flag) ==
    IF kind \in {"success", "resumed"} THEN TRUE ELSE FALSE

\* connected_flag after _on_connection_<kind> has run
OnConnection(kind, flag) ==
    IF kind \in {"success", "resumed"} THEN TRUE
    ELSE IF kind \in {"interrupted", "closed"} THEN FALSE
    ELSE flag

(* ---------------------------- device ----------------------------------- *)

\* variant: a draw equal to the probability skips too
SkipSend_Inclusive(r, probability) == r <= probability

\* BaseDevice._skip_send, r = random.random() * 100
SkipSend(r, probability) == r < probability

\* variant: the exit test is off by one
ReachedMaxCycles_OffByOne(max, c) == max > 0 /\ c > max

\* the loop's exit test
ReachedMaxCycles(max, c) == max > 0 /\ c >= max

\* a device without a maximum is followed up to CycleCap only
Followed(max, c) == max > 0 \/ c < CycleCap

\* variant: the payload is tested before the skip draw
Branch_PayloadFirst(skip, p) ==
    IF p # NonePayload THEN "send"
    ELSE IF skip THEN "skip"
    ELSE "no data"

\* the branch the loop body takes: `if self._skip_send(): ... elif payload
\* is not None: ... else: ...`
Branch(skip, p) ==
    IF skip THEN "skip"
    ELSE IF p # NonePayload THEN "send"
    ELSE "no data"

\* the sources after whose publish the swarm is written
IsLoopingSource(kind) == kind \in {"LoopingCsvDB", "LoopingSQLite3", "MockDB"}

\* what a fetched payload is made of, for the adapter: a row is one mapping,
\* the uneven row a batch of two mappings with different keys
NoUnevenRow == -1

RowContent(uneven, p) ==
    IF p.tag = "Row" /\ p.idx = uneven
      THEN [shape |-> "batch", rows |-> <<(<<"temp">>), (<<"temp", "BattV">>)>>,
            elems |-> <<>>]
    ELSE IF p.tag = "Row"
      THEN [shape |-> "mapping", rows |-> <<(<<"temp", "BattV">>)>>,
            elems |-> <<>>]
    ELSE [shape |-> "batch", rows |-> <<>>, elems |-> <<>>]

\* `payload = self._format_payload(payload)` raises
FormatRaised(uneven, p) ==
    uneven # NoUnevenRow /\ FormatPayload(RowContent(uneven, p)).tag # "envelope"

\* variant: gather(..., return_exceptions=True) keeps the exception
Gather_ReturnExceptions(raised) == "running"

\* asyncio.gather in Swarm.run, when a device's run raises or does not: the
\* first exception is raised to the caller of Swarm.run
Gather(raised) == IF raised THEN "failed" ELSE "running"

(* ---------------------------- snapshot --------------------------------- *)

\* Path(swarm.base_directory, swarm.name + ".pkl")
SwarmFileOfSwarm == base_directory

\* Path(cls.base_directory, swarm + ".pkl")
SwarmFileOfName == "class"

\* variant: cycle, a class attribute, is left out of the pickle
Dump_NoCycle(cyc, max) ==
    [tag |-> "Swarm", name |-> SwarmName, base_directory |-> base_directory,
     devices |-> [d \in Devices |-> [cycle |-> 0, max_cycles |-> max[d],
                                     no_send_probability |-> no_send_probability[d]]]]

\* dill.dump(swarm, file): the swarm graph as it is in memory
Dump(cyc, max) ==
    [tag |-> "Swarm", name |-> SwarmName, base_directory |-> base_directory,
     devices |-> [d \in Devices |-> [cycle |-> cyc[d], max_cycles |-> max[d],
                                     no_send_probability |-> no_send_probability[d]]]]

(* ---------------------------- initial state ---------------------------- *)

\* ---- CR1000X serial number --------------------------------------------
\* A string is the sequence of its code points.  The site IDs tried are
\* made of the characters with these code points: 1, 11 and 111 (whose
\* decimal numerals are made of the same digit), 45 ("-") and 49 ("1").
MaxIdLen == 2

CodePoints == {1, 11, 45, 49, 111}

SiteIds == UNION {[1..n -> CodePoints] : n \in 0..MaxIdLen}

NoSiteIds == <<>>

NoSerialNumbers == <<>>

\* ord("-")
Dash == 45

\* str(n) for n >= 0: the decimal numeral, "0" being code point 48
RECURSIVE Str(_)
Str(n) ==
    IF n < 10 THEN <<48 + n>> ELSE Str(n \div 10) \o <<48 + (n % 10)>>

\* sep.join(parts[i:])
RECURSIVE Join(_, _, _)
Join(sep, parts, i) ==
    IF i > Len(parts) THEN <<>>
    ELSE IF i = Len(parts) THEN parts[i]
    ELSE parts[i] \o sep \o Join(sep, parts, i + 1)

\* variant: the numerals are joined without a separator
GetSerialNumberFromSite_Undelimited(value) ==
    Join(<<>>, [j \in 1..Len(value) |-> Str(value[j])], 1)

\* "-".join([str(ord(x)) for x in value])
GetSerialNumberFromSite(value) ==
    Join(<<Dash>>, [j \in 1..Len(value) |-> Str(value[j])], 1)

\* ---- live upload: state tracker and uploader ---------------------------
MaxTime == 2

MaxPayloads == 2

\* datetimes of rows; 0 stands for None (no datetime)
Times == 1..MaxTime

\* the datetimes a state file written by an earlier process holds
SavedTimes == {0, 1}

\* State: last_run and, per site, the last_data of its Site entry (0: the
\* site is not in state["sites"])
States == [last_run : 0..MaxTime, sites : [Sites -> 0..MaxTime]]

\* {"last_run": None, "sites": {}}
BlankState == [last_run |-> 0, sites |-> [s \in Sites |-> 0]]

\* StateTracker.state before load_state has returned
NoState == <<>>

Newest(marks) == CHOOSE t \in 0..MaxTime :
                    /\ \A s \in Sites : marks[s] <= t
                    /\ t = 0 \/ \E s \in Sites : marks[s] = t

\* the states write_state can have pickled: last_run is the newest last_data
SavedStates ==
    {st \in States : /\ \A s \in Sites : st.sites[s] \in SavedTimes
                     /\ st.last_run = Newest(st.sites)
                     /\ st.last_run > 0}

\* what a file that is there holds: no bytes ("empty": pickle.load raises
\* EOFError), bytes that are no pickle ("damaged": pickle.load raises
\* UnpicklingError), or a pickled state ("state")
StateFile(kind, st) == [kind |-> kind, state |-> st]

FileContents ==
    {StateFile(k, NoState) : k \in {"empty", "damaged"}}
        \cup {StateFile("state", st) : st \in SavedStates}

\* the state files there can be: each of the two is there or is not
StateFiles ==
    UNION {[present -> FileContents] : present \in SUBSET {"main", "backup"}}

\* what open(file, "rb") and pickle.load make of a file
KindOf(dir, file) == IF file \in DOMAIN dir THEN dir[file].kind ELSE "missing"

\* StateTracker.load_state: what it returns or raises, and what the main
\* file holds afterwards
LoadState(dir) ==
    LET main == KindOf(dir, "main")
        backup == KindOf(dir, "backup")
    IN  IF main = "state" THEN [result |-> dir["main"].state, files |-> dir]
        ELSE IF main = "damaged"
          THEN [result |-> Raised("UnpicklingError"), files |-> dir]
        ELSE IF backup = "state"
          THEN [result |-> dir["backup"].state,
                files |-> [f \in {"main", "backup"} |-> dir["backup"]]]
        ELSE IF backup = "damaged"
          THEN [result |-> Raised("UnpicklingError"), files |-> dir]
        ELSE IF backup = "empty"
          THEN [result |-> Raised("RuntimeError"), files |-> dir]
        ELSE [result |-> BlankState, files |-> dir]

\* variant: the site entry is replaced whatever its last_data is
UpdateState_Overwrite(st, site_id, last_data) ==
    [last_run |-> IF st.last_run = 0 \/ st.last_run < last_data
                    THEN last_data ELSE st.last_run,
     sites |-> [st.sites EXCEPT ![site_id] = last_data]]

\* StateTracker.update_state(Site(site_id, last_data)): the new state
UpdateState(st, site_id, last_data) ==
    [last_run |-> IF st.last_run = 0 \/ st.last_run < last_data
                    THEN last_data ELSE st.last_run,
     sites |-> IF st.sites[site_id] = 0 \/ last_data > st.sites[site_id]
                 THEN [st.sites EXCEPT ![site_id] = last_data]
                 ELSE st.sites]

\* ... and its return value: has the state changed
StateChanged(st, site_id, last_data) == UpdateState(st, site_id, last_data) # st

\* StateTracker.write_state: the state is pickled to the file and the backup
WriteState(st) == [f \in {"main", "backup"} |-> StateFile("state", st)]

\* the directory after `file` has been given the content `content`
Put(dir, file, content) ==
    [f \in DOMAIN dir \cup {file} |-> IF f = file THEN content ELSE dir[f]]

\* what the two files can hold when the process stops inside write_state:
\* open(file, "wb") leaves the file without bytes, pickle.dump and the
\* close fill it, and a stop in between leaves a part of the pickle; the
\* backup is opened after the main file is complete
WriteStateStopped(dir, st) ==
    LET done == Put(dir, "main", StateFile("state", st)) IN
    {Put(dir, "main", StateFile("empty", NoState)),
     Put(dir, "main", StateFile("damaged", NoState)),
     done,
     Put(done, "backup", StateFile("empty", NoState)),
     Put(done, "backup", StateFile("damaged", NoState))}

\* a payload is one formatted row: its station_name and data[0].time
Payload(site_id, time) == [site_id |-> site_id, time |-> time]

AllPayloads == {Payload(s, t) : s \in Sites, t \in Times}

\* LiveUploader._get_search_time; 0 stands for the fallback time, which is
\* before every row tried
GetSearchTime(st, site_id) == st.sites[site_id]

\* position of a site in LiveUploader.sites
SiteOrder(site_id) == IF site_id = "ALIC1" THEN 1 ELSE 2

\* what get_latest_payloads can return: for each site in turn, rows newer
\* than the search time
LatestPayloads(st) ==
    {ps \in UNION {[1..n -> AllPayloads] : n \in 0..MaxPayloads} :
        /\ \A i \in 1..Len(ps) : ps[i].time > GetSearchTime(st, ps[i].site_id)
        /\ \A i, j \in 1..Len(ps) :
              i < j => SiteOrder(ps[i].site_id) <= SiteOrder(ps[j].site_id)}

\* state_changed: the local variable of the body that runs; retried: the
\* body of send_payload has been run again by backoff; changed: some run of
\* the body in this call has changed the state
NoAttempt == [phase |-> "idle", state_changed |-> FALSE, error |-> "none",
              retried |-> FALSE, changed |-> FALSE]

\* variant: the loop stops before the last payload
LoopDone_Early(ps, n) == n >= Len(ps)

\* `for payload in payloads` has no payload left
LoopDone(ps, n) == n > Len(ps)

\* no uploader is exercised on its own
UploaderIdle ==
    /\ state_files = <<>>
    /\ upload_state = NoState
    /\ uploader = "new"
    /\ payloads = <<>>
    /\ position = 1
    /\ send_calls = <<>>
    /\ attempt = NoAttempt
    /\ bucket = <<>>
    /\ gets = 0

\* ---- swarm files in the base directory ---------------------------------
\* swarm names: two plain ones and one that holds a path separator
SwarmNames == {"s1", "s2", "sub/s3"}

\* Path(base_directory, name + ".pkl"): the directory under the base
\* directory ("": the base directory itself), the stem and the suffix
GetSwarmFile(name) ==
    IF name = "sub/s3" THEN [parent |-> "sub", stem |-> "s3", suffix |-> ".pkl"]
    ELSE [parent |-> "", stem |-> name, suffix |-> ".pkl"]

SwarmFiles == {GetSwarmFile(name) : name \in SwarmNames}

\* what a swarm file holds: "" (the placeholder _initialise_swarm_file
\* dumps) or a swarm
FileKinds == {"", "swarm"}

\* swarm_file.exists(); tree[f] is what the file f holds, for the files
\* there are
Exists(tree, f) == f \in DOMAIN tree

\* open(swarm_file, "wb") and dill.dump
Dumped(tree, f, kind) ==
    [g \in DOMAIN tree \cup {f} |-> IF g = f THEN kind ELSE tree[g]]

\* os.remove(swarm_file)
Removed(tree, f) == [g \in DOMAIN tree \ {f} |-> tree[g]]

\* os.listdir(base_directory): the files in it and the directories under it
ListDir(dirs, tree) ==
    {[stem |-> f.stem, suffix |-> f.suffix] :
        f \in {g \in SwarmFiles : g.parent = "" /\ Exists(tree, g)}}
    \cup {[stem |-> d, suffix |-> ""] : d \in dirs \ {""}}

\* variant: every entry of the directory is listed
ListSwarmsWithDirectory_AllEntries(dirs, tree) ==
    IF "" \notin dirs THEN {}
    ELSE {e.stem : e \in ListDir(dirs, tree)}

\* Swarm._list_swarms_with_directory(base_directory)
ListSwarmsWithDirectory(dirs, tree) ==
    IF "" \notin dirs THEN {}
    ELSE {e.stem : e \in {x \in ListDir(dirs, tree) : x.suffix = ".pkl"}}

\* os.makedirs(swarm_file.parent), if it does not exist
MakeDirs(dirs, f) == dirs \cup {"", f.parent}

NoListing == [called |-> FALSE, names |-> {}]

NoCheck == [name |-> "", result |-> FALSE]

\* no swarm file is handled on its own
FolderIdle ==
    /\ directories = {}
    /\ swarm_files = <<>>
    /\ listing = NoListing
    /\ checked = NoCheck

\* no data source object is exercised on its own
SourceIdle ==
    /\ files = [path \in Paths |-> <<>>]
    /\ source = NoSource
    /\ restored = NoSource
    /\ query = NoQuery

\* no publisher is exercised on its own
PublisherIdle ==
    /\ connected_flag = FALSE
    /\ callbacks = <<>>
    /\ handle = "built"
    /\ call = NoCall
    /\ sends = 0
    /\ delivered = 0

\* no payload is formatted on its own
FormatIdle ==
    /\ values = NoPayload
    /\ envelope = NoEnvelope
    /\ column = <<>>
    /\ data_type = "none"
    /\ site_ids = NoSiteIds
    /\ serial_numbers = NoSerialNumbers

Init ==
    /\ SourceIdle
    /\ PublisherIdle
    /\ FormatIdle
    /\ UploaderIdle
    /\ FolderIdle
    /\ uneven_row = NoUnevenRow
    /\ data_source \in SourceKinds
    /\ \E n \in 0..MaxRows :
          /\ data_source = "MockDB" => n = 0
          /\ data_source = "LoopingCsvDB" => n \in {0, MaxRows}
          /\ data_source = "LoopingSQLite3" => n \in {0, MaxRows}
          /\ rows = [d \in Devices |-> n]
    /\ connection \in ConnKinds
    /\ base_directory \in Dirs
    /\ \E p \in Probabilities : no_send_probability = [d \in Devices |-> p]
    \* the devices are alike but for max_cycles: one of two mirrored swarms
    /\ max_cycles \in [Devices -> 0..MaxCycles]
    /\ max_cycles["d1"] <= max_cycles["d2"]
    /\ cycle = [d \in Devices |-> 0]
    /\ pc = [d \in Devices |-> "start"]
    /\ running = NoTask
    /\ payload = [d \in Devices |-> NonePayload]
    /\ send_status = [d \in Devices |-> FALSE]
    /\ iter = [d \in Devices |-> NoIteration]
    /\ proc = "idle"
    /\ run = 1
    /\ stopped = "no"
    /\ disk = [dir \in Dirs |-> Missing]
    /\ published = [d \in Devices |-> 0]

(* ---------------------------- Swarm.run -------------------------------- *)

\* asyncio.gather(*[device.run() for device in self.devices]) is entered
SwarmRun ==
    /\ proc \in {"idle", "loaded"}
    /\ proc' = "running"
    /\ UNCHANGED <<units, config, max_cycles, cycle, pc, running, payload,
                   send_status, iter, run, stopped, disk, published>>

\* variant: run returns as soon as one device task has finished
SwarmReturn_FirstDone ==
    /\ proc = "running"
    /\ running = NoTask
    /\ \E d \in Devices : pc[d] = "done"
    /\ proc' = "returned"
    /\ UNCHANGED <<units, config, max_cycles, cycle, pc, running, payload,
                   send_status, iter, run, stopped, disk, published>>

\* asyncio.gather returns: every device task has finished
SwarmReturn ==
    /\ proc = "running"
    /\ \A d \in Devices : pc[d] = "done"
    /\ proc' = "returned"
    /\ UNCHANGED <<units, config, max_cycles, cycle, pc, running, payload,
                   send_status, iter, run, stopped, disk, published>>

(* ---------------------------- BaseDevice.run --------------------------- *)

\* the task is started: `if self.delay_start: await self._add_delay()`.
\* delay_start is an immutable attribute of the device that nothing else
\* reads, so its value is drawn here instead of being kept in the state.
StartTask(d) ==
    /\ proc = "running"
    /\ running = NoTask
    /\ pc[d] = "start"
    /\ Followed(max_cycles[d], cycle[d])
    /\ \E delay_start \in BOOLEAN :
          IF delay_start
            THEN /\ pc' = [pc EXCEPT ![d] = "delay"]
                 /\ UNCHANGED running
            ELSE /\ pc' = [pc EXCEPT ![d] = "head"]
                 /\ running' = d
    /\ UNCHANGED <<units, config, max_cycles, cycle, payload, send_status, iter,
                   proc, run, stopped, disk, published>>

\* the event loop resumes the task after asyncio.sleep
Wake(d) ==
    /\ proc = "running"
    /\ running = NoTask
    /\ pc[d] \in {"delay", "sleep"}
    /\ Followed(max_cycles[d], cycle[d])
    /\ pc' = [pc EXCEPT ![d] = "head"]
    /\ running' = d
    /\ UNCHANGED <<units, config, max_cycles, cycle, payload, send_status, iter,
                   proc, run, stopped, disk, published>>

\* the fetch raised: nothing in run catches it
FetchRaised(fetched) == fetched = ErrorPayload

\* loop head: the exit test, then `payload = await self._get_payload()`.
\* An exception of the fetch leaves run; gather hands it to the caller of
\* Swarm.run and the event loop is left (asyncio.run cancels what remains).
LoopHead(d) ==
    /\ proc = "running"
    /\ running = d
    /\ pc[d] = "head"
    /\ LET fetched == GetPayload(data_source, rows[d], cycle[d]) IN
       IF ReachedMaxCycles(max_cycles[d], cycle[d])
          THEN /\ pc' = [pc EXCEPT ![d] = "done"]
               /\ running' = NoTask
               /\ UNCHANGED <<payload, iter, proc>>
          ELSE IF FetchRaised(fetched)
          THEN /\ pc' = [pc EXCEPT ![d] = "fetch_error"]
               /\ running' = NoTask
               /\ proc' = "failed"
               /\ UNCHANGED <<payload, iter>>
          ELSE /\ payload' = [payload EXCEPT
                      ![d] = fetched]
               /\ iter' = [iter EXCEPT
                      ![d] = [NoIteration EXCEPT !.start = cycle[d]]]
               /\ pc' = [pc EXCEPT ![d] = "fetched"]
               /\ UNCHANGED <<running, proc>>
    /\ UNCHANGED <<units, config, max_cycles, cycle, send_status, run, stopped,
                   disk, published>>

\* `if self._skip_send(): ... elif payload is not None: ... else: ...`
\* up to and including `send_status = self._send_payload(payload)`
Decide(d) ==
    /\ proc = "running"
    /\ running = d
    /\ pc[d] = "fetched"
    /\ \E r \in RandomPercents :
          LET skip == SkipSend(r, no_send_probability[d])
              branch == Branch(skip, payload[d])
          IN
          IF branch = "send" /\ FormatRaised(uneven_row, payload[d])
            \* the exception of the adapter leaves run before any send
            THEN /\ iter' = [iter EXCEPT ![d].skipped = skip]
                 /\ pc' = [pc EXCEPT ![d] = "format_error"]
                 /\ running' = NoTask
                 /\ proc' = Gather(TRUE)
                 /\ UNCHANGED <<send_status, published>>
          ELSE IF branch = "send"
            THEN \/ \E s \in SendResults(connection, payload[d]) :
                      /\ send_status' = [send_status EXCEPT ![d] = s]
                      /\ iter' = [iter EXCEPT ![d].skipped = skip,
                                              ![d].called = TRUE,
                                              ![d].acked = s]
                      /\ published' = [published EXCEPT
                             ![d] = IF s THEN @ + 1 ELSE @]
                      /\ pc' = [pc EXCEPT ![d] = "sent"]
                      /\ UNCHANGED <<running, proc>>
                 \* the exception leaves run, as one of the fetch does
                 \/ /\ SendCanRaise(connection, payload[d])
                    /\ iter' = [iter EXCEPT ![d].skipped = skip,
                                            ![d].called = TRUE]
                    /\ pc' = [pc EXCEPT ![d] = "send_error"]
                    /\ running' = NoTask
                    /\ proc' = "failed"
                    /\ UNCHANGED <<send_status, published>>
            ELSE /\ iter' = [iter EXCEPT ![d].skipped = skip,
                                         ![d].nodata = (branch = "no data")]
                 /\ pc' = [pc EXCEPT ![d] = "end"]
                 /\ UNCHANGED <<send_status, published, running, proc>>
    /\ UNCHANGED <<units, config, max_cycles, cycle, payload, run,
                   stopped, disk>>

\* variant: cycle is incremented whatever send_status is
AfterSend_AlwaysIncrement(d) ==
    /\ proc = "running"
    /\ running = d
    /\ pc[d] = "sent"
    /\ cycle' = [cycle EXCEPT ![d] = @ + 1]
    /\ IF send_status[d] /\ IsLoopingSource(data_source)
          THEN pc' = [pc EXCEPT ![d] = "write_remove"]
          ELSE pc' = [pc EXCEPT ![d] = "end"]
    /\ UNCHANGED <<units, config, max_cycles, running, payload, send_status, iter,
                   proc, run, stopped, disk, published>>

\* variant: the swarm is written before cycle is incremented
AfterSend_WriteBeforeIncrement(d) ==
    /\ proc = "running"
    /\ running = d
    /\ pc[d] = "sent"
    /\ IF send_status[d] /\ IsLoopingSource(data_source)
          THEN pc' = [pc EXCEPT ![d] = "write_remove"]
          ELSE pc' = [pc EXCEPT ![d] = "end"]
    /\ UNCHANGED <<units, config, max_cycles, cycle, running, payload, send_status,
                   iter, proc, run, stopped, disk, published>>

\* variant: cycle is an attribute of the class, shared by the devices
AfterSend_ClassCycle(d) ==
    /\ proc = "running"
    /\ running = d
    /\ pc[d] = "sent"
    /\ IF send_status[d]
          THEN /\ cycle' = [e \in Devices |-> cycle[e] + 1]
               /\ IF IsLoopingSource(data_source)
                     THEN pc' = [pc EXCEPT ![d] = "write_remove"]
                     ELSE pc' = [pc EXCEPT ![d] = "end"]
          ELSE /\ pc' = [pc EXCEPT ![d] = "end"]
               /\ UNCHANGED cycle
    /\ UNCHANGED <<units, config, max_cycles, running, payload, send_status, iter,
                   proc, run, stopped, disk, published>>

\* variant: the swarm is written only as long as it has no file
AfterSend_WriteOnce(d) ==
    /\ proc = "running"
    /\ running = d
    /\ pc[d] = "sent"
    /\ IF send_status[d]
          THEN /\ cycle' = [cycle EXCEPT ![d] = @ + 1]
               /\ IF /\ IsLoopingSource(data_source)
                     /\ ~IsSwarmFile(disk[SwarmFileOfSwarm])
                     THEN pc' = [pc EXCEPT ![d] = "write_remove"]
                     ELSE pc' = [pc EXCEPT ![d] = "end"]
          ELSE /\ pc' = [pc EXCEPT ![d] = "end"]
               /\ UNCHANGED cycle
    /\ UNCHANGED <<units, config, max_cycles, running, payload, send_status, iter,
                   proc, run, stopped, disk, published>>

\* `if send_status: self.cycle += 1`, then the test for writing the swarm
AfterSend(d) ==
    /\ proc = "running"
    /\ running = d
    /\ pc[d] = "sent"
    /\ IF send_status[d]
          THEN /\ cycle' = [cycle EXCEPT ![d] = @ + 1]
               /\ IF IsLoopingSource(data_source)
                     THEN pc' = [pc EXCEPT ![d] = "write_remove"]
                     ELSE pc' = [pc EXCEPT ![d] = "end"]
          ELSE /\ pc' = [pc EXCEPT ![d] = "end"]
               /\ UNCHANGED cycle
    /\ UNCHANGED <<units, config, max_cycles, running, payload, send_status, iter,
                   proc, run, stopped, disk, published>>

(* ---------------------------- Swarm._write_swarm ----------------------- *)

\* `if swarm_file.exists(): if replace: os.remove(swarm_file)`
WriteRemove(d) ==
    /\ proc = "running"
    /\ running = d
    /\ pc[d] = "write_remove"
    /\ disk' = [disk EXCEPT ![SwarmFileOfSwarm] = Missing]
    /\ pc' = [pc EXCEPT ![d] = "write_open"]
    /\ UNCHANGED <<units, config, max_cycles, cycle, running, payload, send_status,
                   iter, proc, run, stopped, published>>

\* variant: the file is opened with an awaited call, which gives up the
\* event loop inside the write
WriteOpen_Awaited(d) ==
    /\ proc = "running"
    /\ running = d
    /\ pc[d] = "write_open"
    /\ disk' = [disk EXCEPT ![SwarmFileOfSwarm] = Partial]
    /\ pc' = [pc EXCEPT ![d] = "write_dump"]
    /\ running' = NoTask
    /\ UNCHANGED <<units, config, max_cycles, cycle, payload, send_status,
                   iter, proc, run, stopped, published>>

\* `open(swarm_file, "wb")` creates the file, empty
WriteOpen(d) ==
    /\ proc = "running"
    /\ running = d
    /\ pc[d] = "write_open"
    /\ disk' = [disk EXCEPT ![SwarmFileOfSwarm] = Partial]
    /\ pc' = [pc EXCEPT ![d] = "write_dump"]
    /\ UNCHANGED <<units, config, max_cycles, cycle, running, payload, send_status,
                   iter, proc, run, stopped, published>>

\* `dill.dump(swarm, file)` and the file is closed
WriteDump(d) ==
    /\ proc = "running"
    /\ running = d
    /\ pc[d] = "write_dump"
    /\ disk' = [disk EXCEPT ![SwarmFileOfSwarm] = Dump(cycle, max_cycles)]
    /\ iter' = [iter EXCEPT ![d].wrote = TRUE]
    /\ pc' = [pc EXCEPT ![d] = "end"]
    /\ UNCHANGED <<units, config, max_cycles, cycle, running, payload, send_status,
                   proc, run, stopped, published>>

(* ---------------------------- end of the iteration --------------------- *)

\* `await asyncio.sleep(self.sleep_time)`: the task gives up the event loop;
\* the locals of the iteration are dead from here on
Sleep(d) ==
    /\ proc = "running"
    /\ running = d
    /\ pc[d] = "end"
    /\ pc' = [pc EXCEPT ![d] = "sleep"]
    /\ running' = NoTask
    /\ payload' = [payload EXCEPT ![d] = NonePayload]
    /\ send_status' = [send_status EXCEPT ![d] = FALSE]
    /\ iter' = [iter EXCEPT ![d] = NoIteration]
    /\ UNCHANGED <<units, config, max_cycles, cycle, proc, run, stopped, disk, published>>

DeviceStep(d) ==
    \/ StartTask(d)
    \/ Wake(d)
    \/ LoopHead(d)
    \/ Decide(d)
    \/ AfterSend(d)
    \/ WriteRemove(d)
    \/ WriteOpen(d)
    \/ WriteDump(d)
    \/ Sleep(d)

(* ---------------------------- interruption ----------------------------- *)

\* the run is cancelled: every unfinished task gets CancelledError at the
\* await it is suspended in
Cancel ==
    /\ proc = "running"
    /\ running = NoTask
    /\ \E d \in Devices : pc[d] # "done"
    /\ proc' = "cancelled"
    /\ pc' = [d \in Devices |-> IF pc[d] = "done" THEN "done" ELSE "cancelled"]
    /\ UNCHANGED <<units, config, max_cycles, cycle, running, payload, send_status,
                   iter, run, stopped, disk, published>>

\* the process stops at an arbitrary point; its memory is gone
Kill ==
    /\ proc = "running"
    /\ proc' = "killed"
    /\ pc' = [d \in Devices |-> "dead"]
    /\ running' = NoTask
    /\ cycle' = [d \in Devices |-> 0]
    /\ payload' = [d \in Devices |-> NonePayload]
    /\ send_status' = [d \in Devices |-> FALSE]
    /\ iter' = [d \in Devices |-> NoIteration]
    /\ UNCHANGED <<units, config, max_cycles, run, stopped, disk, published>>

(* ---------------------------- Swarm.load_swarm ------------------------- *)

\* variant: the loaded device falls back to the class attribute cycle = 0
LoadedCycle_ClassDefault(swarm, d) == 0

\* dill.load(file): the attributes of the devices of the loaded swarm
LoadedCycle(swarm, d) == swarm.devices[d].cycle
LoadedMaxCycles(swarm, d) == swarm.devices[d].max_cycles
LoadedProbability(swarm, d) == swarm.devices[d].no_send_probability

\* the values a caller gives max_cycles on a loaded device
ResumeMaxCycles(old) ==
    IF old > 0 THEN {old, MaxResumeCycles} ELSE {old}

\* a new process loads the swarm by name; the caller revises max_cycles
LoadSwarm ==
    /\ proc \in {"returned", "cancelled", "killed"}
    /\ run < MaxRuns
    /\ IsSwarmFile(disk[SwarmFileOfName])
    /\ LET swarm == disk[SwarmFileOfName] IN
          /\ cycle' = [d \in Devices |-> LoadedCycle(swarm, d)]
          /\ no_send_probability' =
                [d \in Devices |-> LoadedProbability(swarm, d)]
          /\ base_directory' = swarm.base_directory
          /\ max_cycles' \in [Devices -> 0..MaxResumeCycles]
          /\ \A d \in Devices :
                max_cycles'[d] \in ResumeMaxCycles(LoadedMaxCycles(swarm, d))
    /\ pc' = [d \in Devices |-> "start"]
    /\ running' = NoTask
    /\ payload' = [d \in Devices |-> NonePayload]
    /\ send_status' = [d \in Devices |-> FALSE]
    /\ iter' = [d \in Devices |-> NoIteration]
    /\ proc' = "loaded"
    /\ run' = run + 1
    /\ stopped' = proc
    /\ UNCHANGED <<units, data_source, rows, connection, uneven_row, disk,
                   published>>

\* load_swarm raises: FileNotFoundError, or the unpickling of a cut-off file
LoadSwarmFails ==
    /\ proc \in {"returned", "cancelled", "killed"}
    /\ run < MaxRuns
    /\ ~IsSwarmFile(disk[SwarmFileOfName])
    /\ proc' = "load_error"
    /\ UNCHANGED <<units, config, max_cycles, cycle, pc, running, payload,
                   send_status, iter, run, stopped, disk, published>>

(* ---------------------------- specification ---------------------------- *)

Next ==
    \/ SwarmRun
    \/ SwarmReturn
    \/ \E d \in Devices : DeviceStep(d)
    \/ Cancel
    \/ Kill
    \/ LoadSwarm
    \/ LoadSwarmFails

Spec == Init /\ [][Next]_vars

\* Runs that nothing interrupts.  The event loop keeps its ready tasks in a
\* queue, so a task that is ready again and again is resumed (strong
\* fairness: it is not ready while another task owns the loop), and a task
\* that owns the loop goes on to its next await; gather returns once every
\* task is done.
LoadAfterReturn == proc = "returned" /\ LoadSwarm

LiveNext ==
    \/ SwarmRun
    \/ SwarmReturn
    \/ \E d \in Devices : DeviceStep(d)
    \/ LoadAfterReturn

LiveSpec ==
    /\ Init
    /\ [][LiveNext]_vars
    /\ \A d \in Devices : SF_vars(DeviceStep(d))
    /\ WF_vars(SwarmReturn)

(* ---------------- swarms whose source holds an uneven row -------------- *)
\* CR1000X devices on a CSV source one of whose rows is a batch of rows
\* with unequal column sets
AdapterInit ==
    /\ SourceIdle
    /\ PublisherIdle
    /\ FormatIdle
    /\ UploaderIdle
    /\ FolderIdle
    /\ data_source = "LoopingCsvDB"
    /\ rows = [d \in Devices |-> MaxRows]
    /\ uneven_row \in 0..(MaxRows - 1)
    /\ connection \in ConnKinds
    /\ base_directory \in Dirs
    /\ \E p \in Probabilities : no_send_probability = [d \in Devices |-> p]
    /\ max_cycles \in [Devices -> 0..MaxCycles]
    /\ max_cycles["d1"] <= max_cycles["d2"]
    /\ cycle = [d \in Devices |-> 0]
    /\ pc = [d \in Devices |-> "start"]
    /\ running = NoTask
    /\ payload = [d \in Devices |-> NonePayload]
    /\ send_status = [d \in Devices |-> FALSE]
    /\ iter = [d \in Devices |-> NoIteration]
    /\ proc = "idle"
    /\ run = 1
    /\ stopped = "no"
    /\ disk = [dir \in Dirs |-> Missing]
    /\ published = [d \in Devices |-> 0]

AdapterSpec == AdapterInit /\ [][Next]_vars

(* ---------------------------- data sources on their own --------------- *)

\* the swarm of the other specifications, not started
SwarmIdle ==
    /\ data_source = "MockDB"
    /\ uneven_row = NoUnevenRow
    /\ rows = [d \in Devices |-> 0]
    /\ connection = "MockMessageConnection"
    /\ base_directory = "class"
    /\ no_send_probability = [d \in Devices |-> 0]
    /\ max_cycles = [d \in Devices |-> 0]
    /\ cycle = [d \in Devices |-> 0]
    /\ pc = [d \in Devices |-> "start"]
    /\ running = NoTask
    /\ payload = [d \in Devices |-> NonePayload]
    /\ send_status = [d \in Devices |-> FALSE]
    /\ iter = [d \in Devices |-> NoIteration]
    /\ proc = "idle"
    /\ run = 1
    /\ stopped = "no"
    /\ disk = [dir \in Dirs |-> Missing]
    /\ published = [d \in Devices |-> 0]

\* a looping source is constructed on one of the data files
SourceInit ==
    /\ SwarmIdle
    /\ files \in [Paths -> Tables]
    /\ \E kind \in {"LoopingCsvDB", "LoopingSQLite3"}, path \in Paths :
          source = NewSource(kind, path)
    /\ restored = NoSource
    /\ query = NoQuery
    /\ PublisherIdle
    /\ FormatIdle
    /\ UploaderIdle
    /\ FolderIdle

\* source.query_latest_from_site(site, index) is called
QuerySource ==
    /\ \E site \in Sites, index \in Offsets :
          query' = [of |-> "source", site |-> site, index |-> index,
                    result |-> QueryLatestFromSite(source, site, index)]
    /\ UNCHANGED <<swarm_vars, upload_vars, folder_vars, mqtt_vars,
                   format_vars, files,
                   source, restored>>

\* the source is pickled (with a swarm) and unpickled
RestoreSource ==
    /\ source.kind = "LoopingSQLite3"
    /\ restored = NoSource
    /\ restored' = SetState(GetState(source))
    /\ UNCHANGED <<swarm_vars, upload_vars, folder_vars, mqtt_vars,
                   format_vars, files,
                   source, query>>

\* restored.query_latest_from_site(site, index) is called
QueryRestored ==
    /\ restored # NoSource
    /\ \E site \in Sites, index \in Offsets :
          query' = [of |-> "restored", site |-> site, index |-> index,
                    result |-> QueryLatestFromSite(restored, site, index)]
    /\ UNCHANGED <<swarm_vars, upload_vars, folder_vars, mqtt_vars,
                   format_vars, files,
                   source, restored>>

SourceNext ==
    \/ QuerySource
    \/ RestoreSource
    \/ QueryRestored

SourceSpec == SourceInit /\ [][SourceNext]_vars

(* ---------------------------- the MQTT publisher on its own ------------ *)

\* IotCoreMQTTConnection.__init__: the connection is built, not connected.
\* connected_flag is set by the callbacks of the connection only, and those
\* follow a connect().
PublisherInit ==
    /\ SwarmIdle
    /\ SourceIdle
    /\ PublisherIdle
    /\ FormatIdle
    /\ UploaderIdle
    /\ FolderIdle

\* send_message(message, topic) up to the publish: the test of the message,
\* then `if self.connected_flag: self._connect()` with its handlers
SendMessage ==
    /\ call.phase = "idle"
    /\ sends < MaxSends
    /\ \E message \in Messages :
          IF ~Truthy(message)
            THEN /\ call' = [NoCall EXCEPT !.phase = "returned",
                                           !.message = message,
                                           !.result = "False"]
                 /\ UNCHANGED connected_flag
          ELSE IF connected_flag
            THEN \E o \in ConnectOutcomes(handle) :
                   /\ call' = [NoCall EXCEPT
                         !.phase = IF o = "connected" THEN "publish"
                                   ELSE IF o = "AttributeError" THEN "raised"
                                   ELSE "returned",
                         !.message = message,
                         !.connects = 1,
                         !.result = IF o = "connected" THEN "none"
                                    ELSE IF o = "AttributeError" THEN o
                                    ELSE "False"]
                   /\ UNCHANGED connected_flag
            ELSE /\ call' = [NoCall EXCEPT !.phase = "publish",
                                           !.message = message]
                 /\ UNCHANGED connected_flag
    /\ UNCHANGED <<swarm_vars, upload_vars, folder_vars, source_vars,
                   format_vars, callbacks, handle,
                   sends, delivered>>

\* `status = self.connection.publish(...)`, `status[0].result()` and the
\* return that follows
Publish ==
    /\ call.phase = "publish"
    /\ \E o \in PublishOutcomes(handle) :
          /\ call' = [call EXCEPT
                !.phase = IF o \in {"AwsCrtError", "AttributeError"}
                            THEN "raised" ELSE "returned",
                !.issued = (o # "AttributeError"),
                !.result = IF o = "packet_id" THEN "True"
                           ELSE IF o = "no packet_id" THEN "False"
                           ELSE o]
          /\ delivered' = IF o = "packet_id" THEN delivered + 1 ELSE delivered
    /\ UNCHANGED <<swarm_vars, upload_vars, folder_vars, source_vars,
                   format_vars,
                   connected_flag, callbacks, handle, sends>>

\* the caller has the result, or the exception, of send_message
Return ==
    /\ call.phase \in {"returned", "raised"}
    /\ call' = NoCall
    /\ sends' = sends + 1
    /\ UNCHANGED <<swarm_vars, upload_vars, folder_vars, source_vars,
                   format_vars,
                   connected_flag, callbacks, handle, delivered>>

\* the publisher is pickled (__getstate__ deletes "connection") and
\* unpickled: the new instance has the pickled attributes and for
\* connection the class attribute, None
RestorePublisher ==
    /\ call.phase = "idle"
    /\ handle = "built"
    /\ handle' = "absent"
    /\ sends' = 0
    /\ UNCHANGED <<swarm_vars, upload_vars, folder_vars, source_vars,
                   format_vars,
                   connected_flag, callbacks, call, delivered>>

PublisherNext ==
    \/ SendMessage
    \/ Publish
    \/ Return
    \/ RestorePublisher

PublisherSpec == PublisherInit /\ [][PublisherNext]_vars

(* ------------- the publisher with a connection that calls back --------- *)

\* the connection, started, calls _on_connection_<kind> from its own
\* thread, at any point of a send_message call or between two calls
BrokerCallback(kind) ==
    /\ handle = "built"
    /\ Len(callbacks) < MaxCallbacks
    /\ connected_flag' = OnConnection(kind, connected_flag)
    /\ callbacks' = Append(callbacks, kind)
    /\ UNCHANGED <<swarm_vars, upload_vars, folder_vars, source_vars,
                   format_vars, handle, call, sends, delivered>>

CallbackNext ==
    \/ SendMessage
    \/ Publish
    \/ Return
    \/ RestorePublisher
    \/ \E kind \in Callbacks : BrokerCallback(kind)

CallbackSpec == PublisherInit /\ [][CallbackNext]_vars

(* ---------------------------- the CR1000X adapter on its own ---------- *)

\* a payload is handed to the adapter, or the values of a column to a field
FormatInit ==
    /\ SwarmIdle
    /\ SourceIdle
    /\ PublisherIdle
    /\ UploaderIdle
    /\ FolderIdle
    /\ envelope = NoEnvelope
    /\ data_type = "none"
    /\ serial_numbers = NoSerialNumbers
    /\ \/ values \in Payloads /\ column = <<>> /\ site_ids = NoSiteIds
       \/ values = NoPayload /\ column \in Columns /\ site_ids = NoSiteIds
       \/ /\ values = NoPayload
          /\ column = <<>>
          /\ site_ids \in SiteIds \X SiteIds

\* device._format_payload(values) returns or raises
Format ==
    /\ values # NoPayload
    /\ envelope = NoEnvelope
    /\ envelope' = FormatPayload(values)
    /\ UNCHANGED <<swarm_vars, upload_vars, folder_vars, source_vars,
                   mqtt_vars, values,
                   column,
                   data_type, site_ids, serial_numbers>>

\* CR1000XField(name, data_values=column) is constructed
NewField ==
    /\ values = NoPayload
    /\ site_ids = NoSiteIds
    /\ data_type = "none"
    /\ data_type' = FieldDataType(column)
    /\ UNCHANGED <<swarm_vars, upload_vars, folder_vars, source_vars,
                   mqtt_vars, values,
                   envelope,
                   column, site_ids, serial_numbers>>

\* CR1000XDevice._get_serial_number_from_site is called on each site ID
GetSerialNumbers ==
    /\ site_ids # NoSiteIds
    /\ serial_numbers = NoSerialNumbers
    /\ serial_numbers' = <<GetSerialNumberFromSite(site_ids[1]),
                           GetSerialNumberFromSite(site_ids[2])>>
    /\ UNCHANGED <<swarm_vars, upload_vars, folder_vars, source_vars,
                   mqtt_vars, values,
                   envelope,
                   column, data_type, site_ids>>

FormatNext ==
    \/ Format
    \/ NewField
    \/ GetSerialNumbers

FormatSpec == FormatInit /\ [][FormatNext]_vars

(* ------------------- the live uploader on its own ------------------- *)
\* a process is about to construct a LiveUploader on some state files
UploaderInit ==
    /\ SwarmIdle
    /\ SourceIdle
    /\ PublisherIdle
    /\ FormatIdle
    /\ FolderIdle
    /\ state_files \in StateFiles
    /\ upload_state = NoState
    /\ uploader = "new"
    /\ payloads = <<>>
    /\ position = 1
    /\ send_calls = <<>>
    /\ attempt = NoAttempt
    /\ bucket = <<>>
    /\ gets = 0

\* LiveUploader.__init__: StateTracker.__init__ loads the state
NewUploader ==
    /\ uploader = "new"
    /\ LET loaded == LoadState(state_files)
       IN  /\ upload_state' = loaded.result
           /\ state_files' = loaded.files
           /\ uploader' = IF loaded.result \in States THEN "ready"
                          ELSE "load_error"
    /\ UNCHANGED <<swarm_vars, source_vars, mqtt_vars, format_vars,
                   folder_vars, payloads,
                   position, send_calls, attempt, bucket, gets>>

\* send_latest_data up to the loop: get_latest_payloads is awaited
SendLatestData ==
    /\ uploader = "ready"
    /\ \E ps \in LatestPayloads(upload_state) :
          /\ payloads' = ps
          /\ uploader' = IF LoopDone(ps, 1) THEN "returned" ELSE "sending"
    /\ gets' = gets + 1
    /\ UNCHANGED <<swarm_vars, source_vars, mqtt_vars, format_vars,
                   folder_vars,
                   state_files, upload_state, position, send_calls,
                   attempt, bucket>>

\* send_payload as far as the object-store write: the state is updated
SendPayloadBody(p) ==
    /\ upload_state' = UpdateState(upload_state, p.site_id, p.time)
    /\ attempt' = [phase |-> "write",
                   state_changed |->
                       StateChanged(upload_state, p.site_id, p.time),
                   error |-> "none",
                   retried |-> attempt.phase = "write",
                   changed |->
                       \/ attempt.phase = "write" /\ attempt.changed
                       \/ StateChanged(upload_state, p.site_id, p.time)]

\* the loop calls send_payload with the next payload
SendPayload ==
    /\ uploader = "sending"
    /\ attempt.phase = "idle"
    /\ send_calls' = Append(send_calls, payloads[position])
    /\ SendPayloadBody(payloads[position])
    /\ UNCHANGED <<swarm_vars, source_vars, mqtt_vars, format_vars,
                   folder_vars,
                   state_files, uploader, payloads, position, bucket, gets>>

\* s3_writer.write returns or raises, and send_payload goes on from there:
\* the state is written if this call changed it; backoff calls send_payload
\* again after an AwsCrtError, or gives up after max_time and raises it; any
\* other exception is raised at once
S3Write ==
    /\ uploader = "sending"
    /\ attempt.phase = "write"
    /\ \/ /\ bucket' = Append(bucket, payloads[position])
          /\ state_files' = IF attempt.state_changed
                               THEN WriteState(upload_state)
                               ELSE state_files
          /\ position' = position + 1
          /\ attempt' = NoAttempt
          /\ uploader' = IF LoopDone(payloads, position + 1) THEN "returned"
                          ELSE "sending"
          /\ UNCHANGED upload_state
       \/ /\ SendPayloadBody(payloads[position])
          /\ UNCHANGED <<state_files, uploader, position, bucket>>
       \/ /\ \E e \in {"AwsCrtError", "Exception"} :
                attempt' = [attempt EXCEPT !.phase = "raised", !.error = e]
          /\ uploader' = "failed"
          /\ UNCHANGED <<state_files, upload_state, position, bucket>>
    /\ UNCHANGED <<swarm_vars, source_vars, mqtt_vars, format_vars,
                   folder_vars, payloads,
                   send_calls, gets>>

\* the process stops inside the write_state call of send_payload: the
\* object has been written; what the process held in memory is gone
StopInWriteState ==
    /\ uploader = "sending"
    /\ attempt.phase = "write"
    /\ attempt.state_changed
    /\ bucket' = Append(bucket, payloads[position])
    /\ state_files' \in WriteStateStopped(state_files, upload_state)
    /\ upload_state' = NoState
    /\ attempt' = NoAttempt
    /\ uploader' = "stopped"
    /\ UNCHANGED <<swarm_vars, source_vars, mqtt_vars, format_vars,
                   folder_vars, payloads, position, send_calls, gets>>

\* the next process makes its StateTracker, which loads the state
LoadAfterStop ==
    /\ uploader = "stopped"
    /\ LET loaded == LoadState(state_files)
       IN  /\ upload_state' = loaded.result
           /\ state_files' = loaded.files
           /\ uploader' = IF loaded.result \in States THEN "reloaded"
                          ELSE "reload_error"
    /\ UNCHANGED <<swarm_vars, source_vars, mqtt_vars, format_vars,
                   folder_vars, payloads,
                   position, send_calls, attempt, bucket, gets>>

UploaderNext ==
    \/ NewUploader
    \/ SendLatestData
    \/ SendPayload
    \/ S3Write
    \/ StopInWriteState
    \/ LoadAfterStop

UploaderSpec == UploaderInit /\ [][UploaderNext]_vars

(* ------------------ the swarm files on their own -------------------- *)
\* nothing has been stored yet: the base directory does not exist
FolderInit ==
    /\ SwarmIdle
    /\ SourceIdle
    /\ PublisherIdle
    /\ FormatIdle
    /\ UploaderIdle
    /\ FolderIdle

\* Swarm._initialise_swarm_file(name)
InitialiseSwarmFile(name) ==
    LET f == GetSwarmFile(name)
    IN  /\ directories' = MakeDirs(directories, f)
        /\ swarm_files' = Dumped(swarm_files, f, "")
        /\ UNCHANGED <<swarm_vars, source_vars, mqtt_vars, format_vars,
                       upload_vars, listing, checked>>

\* Swarm._write_swarm(swarm, replace) for a swarm of that name in the class
\* base directory; FileExistsError leaves everything as it is
WriteSwarm(name, replace) ==
    LET f == GetSwarmFile(name)
    IN  /\ Exists(swarm_files, f) => replace
        /\ directories' = MakeDirs(directories, f)
        /\ swarm_files' = Dumped(swarm_files, f, "swarm")
        /\ UNCHANGED <<swarm_vars, source_vars, mqtt_vars, format_vars,
                       upload_vars, listing, checked>>

\* Swarm.destroy_swarm(name)
DestroySwarm(name) ==
    LET f == GetSwarmFile(name)
    IN  /\ swarm_files' = IF Exists(swarm_files, f)
                            THEN Removed(swarm_files, f)
                            ELSE swarm_files
        /\ UNCHANGED <<swarm_vars, source_vars, mqtt_vars, format_vars,
                       upload_vars, directories, listing, checked>>

\* Swarm._list_swarms()
ListSwarms ==
    /\ listing' = [called |-> TRUE,
                   names |-> ListSwarmsWithDirectory(directories, swarm_files)]
    /\ UNCHANGED <<swarm_vars, source_vars, mqtt_vars, format_vars,
                   upload_vars, directories, swarm_files, checked>>

\* Swarm._swarm_exists(name)
SwarmExists(name) ==
    /\ checked' = [name |-> name,
                   result |-> Exists(swarm_files, GetSwarmFile(name))]
    /\ UNCHANGED <<swarm_vars, source_vars, mqtt_vars, format_vars,
                   upload_vars, directories, swarm_files, listing>>

FolderNext ==
    \/ \E name \in SwarmNames : InitialiseSwarmFile(name)
    \/ \E name \in SwarmNames, replace \in BOOLEAN : WriteSwarm(name, replace)
    \/ \E name \in SwarmNames : DestroySwarm(name)
    \/ ListSwarms
    \/ \E name \in SwarmNames : SwarmExists(name)

FolderSpec == FolderInit /\ [][FolderNext]_vars

TypeOK ==
    /\ cycle \in [Devices -> 0..MaxResumeCycles]
    /\ running \in Devices \cup {NoTask}
    /\ published \in [Devices -> Nat]

(* ======================================================================= *)
(* Properties                                                              *)
(* ======================================================================= *)

WritePcs == {"write_remove", "write_open", "write_dump"}

\* the observable fields of the swarm in memory
InMemory ==
    [name |-> SwarmName,
     devices |-> [d \in Devices |->
                    [cycle |-> cycle[d], max_cycles |-> max_cycles[d],
                     no_send_probability |-> no_send_probability[d]]]]

\* the observable fields of the swarm held by a file
Saved(f) == [name |-> f.name, devices |-> f.devices]

\* device d gets a payload from every fetch, never skips, and every send
\* is acknowledged
AlwaysPublishes(d) ==
    /\ max_cycles[d] > 0
    /\ no_send_probability[d] = 0
    /\ connection = "MockMessageConnection"
    /\ \A c \in 0..MaxResumeCycles :
          GetPayload(data_source, rows[d], c).tag \in {"Row", "List"}

\* C1: within a run, a step changes a device's cycle only by adding 1 to
\* it, and only the step that follows a send that returned true; at the end
\* of an iteration cycle is its value at the start of the iteration, plus 1
\* exactly when the send of this iteration returned true (so a skipped
\* iteration, one without data and one whose send returned false leave it
\* unchanged).
C1_CycleAdvancesOnlyOnAck ==
    [][\A d \in Devices :
         /\ (proc = "running" /\ proc' = "running") =>
               \/ cycle'[d] = cycle[d]
               \/ /\ cycle'[d] = cycle[d] + 1
                  /\ pc[d] = "sent"
                  /\ send_status[d]
                  /\ iter[d].called
                  /\ iter[d].acked
         /\ (proc' = "running" /\ pc'[d] = "end") =>
               /\ cycle'[d] = iter'[d].start + (IF iter'[d].acked THEN 1 ELSE 0)
               /\ (iter'[d].skipped \/ iter'[d].nodata) => ~iter'[d].acked
               /\ iter'[d].acked => iter'[d].called
      ]_vars

\* C1 witness: an iteration whose send returned false ends with cycle still
\* at the 1 an earlier acknowledged send brought it to.
C1_Witness ==
    \E d \in Devices :
        /\ pc[d] = "end"
        /\ iter[d].called
        /\ ~iter[d].acked
        /\ iter[d].start = 1
        /\ cycle[d] = 1

\* C2: a device with max_cycles = M > 0, no_send_probability = 0, a source
\* that yields a payload on every fetch and a publisher that acknowledges
\* every send reaches the end of run, with cycle = M and exactly M
\* acknowledged publishes; and whenever its run has ended that is so.
C2_TerminatesAfterMaxCycles ==
    \A d \in Devices :
        /\ (proc = "running" /\ run = 1 /\ AlwaysPublishes(d))
              ~> (pc[d] = "done" /\ cycle[d] = max_cycles[d]
                                 /\ published[d] = max_cycles[d])
        /\ []((run = 1 /\ AlwaysPublishes(d) /\ pc[d] = "done") =>
                 (cycle[d] = max_cycles[d] /\ published[d] = max_cycles[d]))

\* C2 witness: such a device has ended its run after MaxCycles publishes.
C2_Witness ==
    \E d \in Devices :
        /\ run = 1
        /\ AlwaysPublishes(d)
        /\ data_source = "LoopingCsvDB"
        /\ pc[d] = "done"
        /\ max_cycles[d] = MaxCycles
        /\ cycle[d] = MaxCycles
        /\ published[d] = MaxCycles

\* C3: when Swarm.run has returned, every device's run loop has ended and
\* every device's cycle is its own max_cycles; in the first run each device
\* has then had exactly max_cycles publishes acknowledged.
C3_RunReturnsWhenAllDone ==
    proc = "returned" =>
        \A d \in Devices :
            /\ pc[d] = "done"
            /\ max_cycles[d] > 0
            /\ cycle[d] = max_cycles[d]
            /\ (run = 1 => published[d] = max_cycles[d])

\* C3 witness: run has returned for devices with different maxima.
C3_Witness ==
    /\ proc = "returned"
    /\ run = 1
    /\ max_cycles["d1"] = 1
    /\ max_cycles["d2"] = 2
    /\ cycle["d1"] = 1
    /\ cycle["d2"] = 2

\* C4: from the skip draw to the end of a skipped iteration no step calls
\* the publisher, changes a cycle, counts a publish or changes the swarm
\* file.
C4_SkipDoesNothing ==
    [][\A d \in Devices :
         (proc' = "running" /\ (iter[d].skipped \/ iter'[d].skipped)) =>
            /\ cycle' = cycle
            /\ disk' = disk
            /\ published' = published
            /\ ~iter'[d].called
            /\ ~iter'[d].wrote
            /\ pc'[d] \in {"end", "sleep"}
      ]_vars

\* C4 witness: an iteration that had a row to send was skipped, after one
\* publish of the device.
C4_Witness ==
    \E d \in Devices :
        /\ pc[d] = "end"
        /\ iter[d].skipped
        /\ payload[d].tag = "Row"
        /\ cycle[d] = 1
        /\ IsSwarmFile(disk[SwarmFileOfSwarm])

C6_SnapshotAfterIncrement ==
    [][\A d \in Devices :
         /\ (pc[d] = "write_dump" /\ pc'[d] = "end") =>
               /\ iter[d].acked
               /\ IsSwarmFile(disk'[SwarmFileOfSwarm])
               /\ disk'[SwarmFileOfSwarm].devices[d].cycle = iter[d].start + 1
         /\ (pc[d] = "sent" /\ pc'[d] \in WritePcs) =>
               cycle'[d] = iter[d].start + 1
         /\ (pc[d] \in WritePcs /\ proc' = "running") =>
               /\ cycle' = cycle
               /\ \A e \in Devices \ {d} : pc'[e] = pc[e]
      ]_vars

\* C6 witness: the snapshot written after the publish that found cycle 1
\* records cycle 2.
C6_Witness ==
    \E d \in Devices :
        /\ pc[d] = "end"
        /\ iter[d].wrote
        /\ iter[d].start = 1
        /\ disk[SwarmFileOfSwarm].devices[d].cycle = 2

\* C7 as claimed: a path that holds a complete snapshot holds a complete
\* snapshot after every step, whatever the step and wherever the process
\* stops.
C7_ReplaceIsAtomic ==
    [][\A dir \in Dirs : IsSwarmFile(disk[dir]) => IsSwarmFile(disk'[dir])]_vars

\* C8 as claimed: once a swarm has written itself, load_swarm(name)
\* finds a swarm file whose name, devices, configuration and cycles are
\* those of the swarm in memory.
C8_LoadReturnsWritten ==
    \A d \in Devices :
        (pc[d] = "end" /\ iter[d].wrote) =>
            /\ IsSwarmFile(disk[SwarmFileOfName])
            /\ Saved(disk[SwarmFileOfName]) = InMemory

\* C8 amended: the same, for a swarm that keeps the class base directory
\* (one constructed with a base_directory of its own writes its file there,
\* and load_swarm(name) looks in the class base directory only).
C8_LoadReturnsWrittenInClassDirectory ==
    \A d \in Devices :
        (base_directory = "class" /\ pc[d] = "end" /\ iter[d].wrote) =>
            /\ IsSwarmFile(disk[SwarmFileOfName])
            /\ Saved(disk[SwarmFileOfName]) = InMemory

\* C8 witness: a swarm in the class base directory has written itself with
\* different cycles for its devices.
C8_Witness ==
    /\ base_directory = "class"
    /\ \E d \in Devices : pc[d] = "end" /\ iter[d].wrote
    /\ cycle["d1"] = 1
    /\ cycle["d2"] = 2
    /\ max_cycles["d1"] = 1

\* C9: a swarm loaded after a run that returned has, for every device, the
\* cycle that was the device's max_cycles in that run; when the run of the
\* loaded swarm has returned every device's cycle is its revised max_cycles
\* and the swarm file records that cycle and that max_cycles; and if every
\* send is acknowledged the run of the loaded swarm does return.
C9_ResumeAfterCompletion ==
    /\ []((run = 2 /\ stopped = "returned" /\ proc = "loaded") =>
             \A d \in Devices :
                cycle[d] = disk[SwarmFileOfName].devices[d].max_cycles)
    /\ []((run = 2 /\ stopped = "returned" /\ proc = "returned") =>
             \A d \in Devices :
                /\ cycle[d] = max_cycles[d]
                /\ IsSwarmFile(disk[SwarmFileOfSwarm])
                /\ disk[SwarmFileOfSwarm].devices[d].cycle = max_cycles[d]
                /\ disk[SwarmFileOfSwarm].devices[d].max_cycles = max_cycles[d])
    /\ (run = 2 /\ stopped = "returned" /\ proc = "running"
           /\ \A d \in Devices : AlwaysPublishes(d))
          ~> (proc = "returned" /\ \A d \in Devices : cycle[d] = max_cycles[d])

\* C9 witness: the run of a swarm loaded after completion, with every
\* max_cycles raised, has returned.
C9_Witness ==
    /\ run = 2
    /\ stopped = "returned"
    /\ proc = "returned"
    /\ \A d \in Devices :
          /\ max_cycles[d] = MaxResumeCycles
          /\ cycle[d] = MaxResumeCycles
          /\ published[d] = MaxResumeCycles
          /\ disk[SwarmFileOfSwarm].devices[d].max_cycles = MaxResumeCycles

\* C10 as claimed: when the run of a swarm loaded after an interruption,
\* with every max_cycles raised, has returned, every device has had as many
\* publishes acknowledged, over both runs, as its cycle says.
C10_NoPublishRepeated ==
    (run = 2 /\ stopped \in {"cancelled", "killed"} /\ proc = "returned"
        /\ \A d \in Devices : max_cycles[d] > MaxCycles) =>
        \A d \in Devices : published[d] = cycle[d]

\* C10 amended: the same when the first run was interrupted by
\* cancellation, which reaches a device task only at an await, between
\* iterations; throughout the second run the publishes acknowledged over
\* both runs equal the cycle (plus the one just acknowledged and not yet
\* counted).
C10_NoPublishRepeatedAfterCancel ==
    (run = 2 /\ stopped = "cancelled"
        /\ proc \in {"loaded", "running", "returned", "cancelled"}) =>
        \A d \in Devices :
            published[d] =
                cycle[d] + (IF pc[d] = "sent" /\ send_status[d] THEN 1 ELSE 0)

\* C10 witness: a swarm cancelled in its first run and resumed with a
\* higher max_cycles has completed its second run.
C10_Witness ==
    /\ run = 2
    /\ stopped = "cancelled"
    /\ proc = "returned"
    /\ \A d \in Devices :
          /\ max_cycles[d] = MaxResumeCycles
          /\ cycle[d] = MaxResumeCycles
          /\ published[d] = MaxResumeCycles

\* C13 as claimed: an exception raised by the fetch does not leave run: no
\* device task ends with an error and Swarm.run does not fail; the
\* iteration counts as "no data" and the device goes on.
C13_FetchErrorIsNoData ==
    \A d \in Devices : pc[d] # "fetch_error"

\* C17 as claimed: while a device task is inside a snapshot write (or a
\* send, which the model takes in one step), every other device task that
\* waits to be started or resumed is able to take its step.
C17_WriteIsSuspensionPoint ==
    \A d \in Devices, e \in Devices :
        (proc = "running" /\ d # e /\ pc[d] \in WritePcs
            /\ pc[e] \in {"start", "delay", "sleep"}
            /\ Followed(max_cycles[e], cycle[e])) =>
            ENABLED (StartTask(e) \/ Wake(e))

\* C19: a device with no_send_probability = 100 skips every iteration: it
\* never calls the publisher, has no publish acknowledged, its cycle stays
\* 0 and it never writes the swarm file (which a swarm of such devices
\* never has); a device with no_send_probability = 0 skips no iteration.
C19_ProbabilityExtremes ==
    \A d \in Devices :
        /\ no_send_probability[d] = 100 =>
              /\ cycle[d] = 0
              /\ published[d] = 0
              /\ ~iter[d].called
              /\ ~iter[d].wrote
              /\ pc[d] \notin {"sent"} \cup WritePcs
              /\ pc[d] = "end" => iter[d].skipped
              /\ (\A e \in Devices : no_send_probability[e] = 100) =>
                    \A dir \in Dirs : disk[dir] = Missing
        /\ no_send_probability[d] = 0 => ~iter[d].skipped

\* C19 witness: a device with no_send_probability = 100 and a publisher
\* that acknowledges everything has skipped an iteration that had a row to
\* send, while the other device is past an iteration of its own.
C19_Witness ==
    /\ connection = "MockMessageConnection"
    /\ no_send_probability["d1"] = 100
    /\ pc["d1"] = "end"
    /\ iter["d1"].skipped
    /\ payload["d1"].tag = "Row"
    /\ pc["d2"] = "sleep"
    /\ max_cycles["d1"] = 1

(* ---------------------------- data sources ----------------------------- *)

\* the table the queried object reads
QueriedTable ==
    IF query.of = "restored" THEN files[restored.cursor]
    ELSE IF source.kind = "LoopingSQLite3" THEN files[source.cursor]
    ELSE files[source.connection]

\* the number of rows of a site in a table
RowsOfSite(table, site) == Cardinality({i \in 1..Len(table) : table[i] = site})

\* the position in the file of the site's row that has j rows of the site
\* before it
NthOfSite(table, site, j) ==
    CHOOSE i \in 1..Len(table) :
        /\ table[i] = site
        /\ Cardinality({m \in 1..(i - 1) : table[m] = site}) = j

\* C11: a LoopingCsvDB whose file holds N >= 1 rows of a site returns, for
\* every offset k >= 0, the site's row at position k mod N in file order,
\* which is also what it returns for the offset k mod N.
C11_CsvLoops ==
    (query.of = "source" /\ source.kind = "LoopingCsvDB"
        /\ RowsOfSite(QueriedTable, query.site) >= 1) =>
        LET n == RowsOfSite(QueriedTable, query.site)
        IN  /\ query.result =
                  Row(NthOfSite(QueriedTable, query.site, query.index % n))
            /\ query.result =
                  QueryLatestFromSite(source, query.site, query.index % n)

\* C11 witness: an offset beyond N that is not a multiple of N, on a file
\* where rows of another site lie between the site's rows.
C11_Witness ==
    /\ query.of = "source"
    /\ source.kind = "LoopingCsvDB"
    /\ QueriedTable = <<"MORLY", "ALIC1", "MORLY">>
    /\ query.site = "MORLY"
    /\ query.index = 3
    /\ query.result = Row(3)

\* C12 as claimed: a LoopingSQLite3 whose table holds N >= 1 rows of a site
\* returns, for every offset k >= 0, the site's row at position k mod N.
C12_SqlLoops ==
    (query.of = "source" /\ source.kind = "LoopingSQLite3"
        /\ RowsOfSite(QueriedTable, query.site) >= 1) =>
        query.result =
            Row(NthOfSite(QueriedTable, query.site,
                          query.index % RowsOfSite(QueriedTable, query.site)))

\* C18: a LoopingSQLite3 restored from its pickle has a connection and a
\* cursor open on the path the pickled object stored, and every query of
\* it returns what the same query of the pickled object returns.
C18_RestoredReturnsSameRows ==
    restored # NoSource =>
        /\ restored.db_file = source.db_file
        /\ restored.connection = source.db_file
        /\ restored.cursor = source.db_file
        /\ \A site \in Sites, index \in Offsets :
              QueryLatestFromSite(restored, site, index) =
                  QueryLatestFromSite(source, site, index)
        /\ query.of = "restored" =>
              query.result =
                  QueryLatestFromSite(source, query.site, query.index)

\* C18 witness: a restored source, whose file differs from the other data
\* file, has answered a query past the end of the site's rows.
C18_Witness ==
    /\ query.of = "restored"
    /\ source.db_file = "b.db"
    /\ files["b.db"] = <<"ALIC1", "MORLY", "MORLY">>
    /\ files["a.db"] = <<"MORLY">>
    /\ query.site = "MORLY"
    /\ query.index = 2
    /\ query.result = Row(2)

(* ---------------------------- MQTT publisher --------------------------- *)

\* C14 as claimed: a send_message call made while connected_flag is false
\* attempts connect() before it issues a publish.
C14_ConnectsBeforePublish ==
    (~connected_flag /\ call.phase \in {"publish", "returned", "raised"}
        /\ Truthy(call.message)) =>
        call.connects > 0

\* C15 as claimed: an error raised by the broker's publish, or by the
\* future of its acknowledgement, never leaves send_message: the call ends
\* by returning.
C15_PublishErrorNeverEscapes ==
    (handle = "built" /\ call.phase # "idle") =>
        /\ call.phase # "raised"
        /\ call.result # "AwsCrtError"

\* C16 as claimed: the first send_message of a publisher rebuilt from a
\* snapshot, given a message, connects and then issues the publish.
C16_RestoredPublisherSends ==
    (handle = "absent" /\ sends = 0 /\ Truthy(call.message)
        /\ call.phase \in {"returned", "raised"}) =>
        /\ call.connects > 0
        /\ call.issued
        /\ call.result \in {"True", "False"}

(* ---------------------------- CR1000X payload -------------------------- *)

\* C20: every envelope the adapter returns has, in every row of data, as
\* many vals as head.fields has descriptors (and a row of data for every
\* row of the payload).
C20_ValsMatchFields ==
    envelope.tag = "envelope" =>
        /\ Len(envelope.data) = Len(SteralizePayload(values))
        /\ \A i \in 1..Len(envelope.data) :
              Len(envelope.data[i].vals) = Len(envelope.fields)

\* C20 witness: a batch of two mappings with a DATE_TIME column, which is
\* taken out of fields and vals.
C20_Witness ==
    /\ envelope.tag = "envelope"
    /\ values.shape = "batch"
    /\ values.rows = <<(<<"DATE_TIME", "temp">>), (<<"temp", "DATE_TIME">>)>>
    /\ envelope.fields = <<"temp">>
    /\ Len(envelope.data) = 2
    /\ Len(envelope.data[2].vals) = 1

\* C21 as claimed: the type inferred is xsd:float for the values [1, 2.5],
\* xsd:string for [1, "abc"] and xsd:short for [None, 1, None].
C21_InferredTypesAsClaimed ==
    data_type # "none" =>
        /\ column = <<PyInt(1), PyFloat>> => data_type = "xsd:float"
        /\ column = <<PyInt(1), PyStr>> => data_type = "xsd:string"
        /\ column = <<PyNone, PyInt(1), PyNone>> => data_type = "xsd:short"

\* C21 amended: the type inferred is that of the highest rank among the
\* values, null < string < boolean < dateTime < short < ... < double:
\* xsd:float for [1, 2.5], xsd:short for [1, "abc"] (short outranks
\* string) and xsd:short for [None, 1, None].
C21_InferredTypes ==
    data_type # "none" =>
        /\ column = <<PyInt(1), PyFloat>> => data_type = "xsd:float"
        /\ column = <<PyInt(1), PyStr>> => data_type = "xsd:short"
        /\ column = <<PyStr, PyInt(1)>> => data_type = "xsd:short"
        /\ column = <<PyNone, PyInt(1), PyNone>> => data_type = "xsd:short"

\* C21 witness: the type of the column [1, "abc"] has been inferred as
\* xsd:short.
C21_Witness ==
    /\ column = <<PyInt(1), PyStr>>
    /\ data_type = "xsd:short"

\* the keys of the rows of a payload, and those named date_time in some
\* letter case
KeysOf(dicts) == UNION {{dicts[i][j] : j \in 1..Len(dicts[i])} : i \in 1..Len(dicts)}
TimeKeysOf(dicts) == {k \in KeysOf(dicts) : Lower(k) = "date_time"}

\* C22: in every envelope returned for rows that have a column named
\* date_time in some letter case, that column (the first seen, if two names
\* differ in case only) is in every row, is absent from head.fields and from
\* every vals, and data[i].time is row i's value of it; in every envelope
\* returned for rows without such a column every data[i].time is the time
\* of formatting.
C22_DateTimeBecomesTime ==
    envelope.tag = "envelope" =>
        LET dicts == SteralizePayload(values)
            fields == {envelope.fields[j] : j \in 1..Len(envelope.fields)}
        IN  IF TimeKeysOf(dicts) # {}
              THEN \E k \in TimeKeysOf(dicts) :
                     /\ k \notin fields
                     /\ fields = KeysOf(dicts) \ {k}
                     /\ \A i \in 1..Len(envelope.data) :
                           /\ k \in {dicts[i][j] : j \in 1..Len(dicts[i])}
                           /\ envelope.data[i].time = i
                           /\ \A j \in 1..Len(envelope.data[i].vals) :
                                 /\ envelope.data[i].vals[j].key # k
                                 /\ envelope.data[i].vals[j].key =
                                       envelope.fields[j]
              ELSE \A i \in 1..Len(envelope.data) :
                     envelope.data[i].time = 0

\* C22 witness: a batch of two rows with an upper-case DATE_TIME column in
\* different positions has been formatted.
C22_Witness ==
    /\ envelope.tag = "envelope"
    /\ values.rows = <<(<<"BattV", "DATE_TIME">>), (<<"DATE_TIME", "BattV">>)>>
    /\ envelope.fields = <<"BattV">>
    /\ envelope.data[1].time = 1
    /\ envelope.data[2].time = 2

\* C23: two different ASCII site IDs never get the same serial number.
C23_SerialNumberInjective ==
    serial_numbers # NoSerialNumbers =>
        (site_ids[1] # site_ids[2] => serial_numbers[1] # serial_numbers[2])

\* C23 witness: the serial numbers "1-11" and "11-1" have been derived from
\* the site IDs "\x01\x0b" and "\x0b\x01".
C23_Witness ==
    /\ site_ids = <<(<<1, 11>>), (<<11, 1>>)>>
    /\ serial_numbers = <<(<<49, 45, 49, 49>>), (<<49, 49, 45, 49>>)>>

\* the high-water-mark of a site on disk: its last_data in the main state
\* file, 0 if the file holds no state
SavedMark(s) ==
    IF KindOf(state_files, "main") = "state"
      THEN state_files["main"].state.sites[s]
      ELSE 0

\* C24: whenever no send_payload call is in progress, a site's
\* high-water-mark in memory that differs from the one on disk is the
\* timestamp of a row of that site whose object-store write succeeded; in
\* particular after a failed write it is what it was before the call.
C24_MarkOnlyAfterWrite ==
    (uploader \in {"sending", "returned", "failed"} /\ attempt.phase # "write")
        => \A s \in Sites :
              upload_state.sites[s] # SavedMark(s)
                  => \E i \in 1..Len(bucket) :
                        bucket[i] = Payload(s, upload_state.sites[s])

\* C25: load_state on a corrupted main file returns the state of a readable
\* backup and rewrites the main file with it, and raises RuntimeError when
\* the backup is corrupted too, or when the main file is missing and the
\* backup is corrupted.
C25_CorruptedMainFallsBack ==
    [][NewUploader =>
          LET main == KindOf(state_files, "main")
              backup == KindOf(state_files, "backup")
              Corrupted == {"empty", "damaged"}
          IN  /\ (main \in Corrupted /\ backup = "state")
                    => /\ upload_state' = state_files["backup"].state
                       /\ state_files'["main"] = state_files["backup"]
              /\ (main \in Corrupted \cup {"missing"} /\ backup \in Corrupted)
                    => upload_state' = Raised("RuntimeError")]_vars

\* C26 as stated: once send_latest_data has ended, get_latest_payloads
\* has been called once and send_payload has been called once with each
\* payload it returned, in that order.
C26_EachPayloadSentOnceInEveryRun ==
    uploader \in {"returned", "failed"} => gets = 1 /\ send_calls = payloads

\* C26: get_latest_payloads is called once; the payloads send_payload has
\* been called with are, in order, the first payloads it returned, each
\* once; when send_latest_data has returned they are all of them (none if
\* there was no new row), each written to the object store once; when a
\* send_payload call raised, the run ended there and the payloads after it
\* were not sent.
C26_EachPayloadSentOnce ==
    /\ gets <= 1
    /\ Len(send_calls) <= Len(payloads)
    /\ \A i \in 1..Len(send_calls) : send_calls[i] = payloads[i]
    /\ uploader \in {"sending", "returned", "failed"} => gets = 1
    /\ uploader = "returned" => send_calls = payloads /\ bucket = payloads
    /\ uploader = "failed" =>
          /\ Len(send_calls) = position
          /\ bucket = SubSeq(payloads, 1, position - 1)

\* C26 witness: a run has returned after sending two payloads of one site,
\* and the state file holds the time of the second.
C26_Witness ==
    /\ uploader = "returned"
    /\ payloads = <<Payload("ALIC1", 1), Payload("ALIC1", 2)>>
    /\ send_calls = payloads
    /\ bucket = payloads
    /\ KindOf(state_files, "main") = "state"
    /\ state_files["main"].state.sites["ALIC1"] = 2

\* what the claim says of the swarm files of a set of names: List returns
\* exactly those that have a file and Exists is true of exactly those; a
\* name is listed after InitEmpty or write, is not after Destroy, and
\* Destroy of a name without a file changes nothing
ListsExactly(names) ==
    /\ \A name \in names :
          /\ InitialiseSwarmFile(name) =>
                name \in ListSwarmsWithDirectory(directories', swarm_files')
          /\ (\E replace \in BOOLEAN : WriteSwarm(name, replace)) =>
                name \in ListSwarmsWithDirectory(directories', swarm_files')
          /\ DestroySwarm(name) =>
                /\ name \notin ListSwarmsWithDirectory(directories', swarm_files')
                /\ ~Exists(swarm_files, GetSwarmFile(name)) =>
                      UNCHANGED <<directories, swarm_files>>
          /\ SwarmExists(name) =>
                (checked'.result <=>
                    name \in ListSwarmsWithDirectory(directories, swarm_files))
    /\ ListSwarms =>
          \A name \in names :
              name \in listing'.names <=>
                  Exists(swarm_files, GetSwarmFile(name))
    /\ ListSwarms =>
          listing'.names \subseteq
              {name \in SwarmNames : Exists(swarm_files, GetSwarmFile(name))}

\* C27 as stated, for every name.
C27_ListIsExistingNames == [][ListsExactly(SwarmNames)]_vars

\* the names that hold no path separator: their file is in the base directory
PlainNames == {name \in SwarmNames : GetSwarmFile(name).parent = ""}

\* C27: for the names that hold no path separator, List returns exactly the
\* names that have a swarm file and Exists(name) is true iff name is in List:
\* a name is listed after InitEmpty or write, is no longer listed after
\* Destroy, and Destroy of a name that has no file changes nothing.  List
\* returns no other name.
C27_ListIsExistingPlainNames == [][ListsExactly(PlainNames)]_vars

\* C27 witness: after InitEmpty of s1, a write of s2 and the destruction of
\* s1 again, List has returned s2 alone, and Exists(s1) has returned false.
C27_Witness ==
    /\ ~Exists(swarm_files, GetSwarmFile("s1"))
    /\ Exists(swarm_files, GetSwarmFile("s2"))
    /\ swarm_files[GetSwarmFile("s2")] = "swarm"
    /\ "" \in directories
    /\ listing = [called |-> TRUE, names |-> {"s2"}]
    /\ checked = [name |-> "s1", result |-> FALSE]

\* C28: a loop head reached with max_cycles > 0 and cycle >= max_cycles
\* ends the device's run and nothing else: no row is fetched, the publisher
\* is not called, no swarm file is written and no cycle changes; a run that
\* has ended this way takes no further step while the swarm runs; and a
\* device with a maximum never has a cycle above it.
C28_ExitAtLoopHead ==
    [][\A d \in Devices :
         /\ (/\ LoopHead(d)
             /\ max_cycles[d] > 0
             /\ cycle[d] >= max_cycles[d])
               => /\ pc'[d] = "done"
                  /\ payload' = payload
                  /\ iter' = iter
                  /\ published' = published
                  /\ disk' = disk
                  /\ cycle' = cycle
         /\ (pc[d] = "done" /\ proc = "running" /\ proc' = "running")
               => /\ pc'[d] = "done"
                  /\ cycle'[d] = cycle[d]
                  /\ payload'[d] = payload[d]
                  /\ iter'[d] = iter[d]
                  /\ published'[d] = published[d]
         /\ (max_cycles[d] > 0 => cycle[d] <= max_cycles[d])
         /\ (max_cycles'[d] > 0 => cycle'[d] <= max_cycles'[d])
      ]_vars

\* C28 witness: a device resumed from a swarm file with cycle = max_cycles
\* has ended its run at the first loop head, without an iteration.
C28_Witness ==
    \E d \in Devices :
        /\ run = 2
        /\ proc = "running"
        /\ pc[d] = "done"
        /\ iter[d] = NoIteration
        /\ max_cycles[d] > 0
        /\ cycle[d] = max_cycles[d]
        /\ published[d] = max_cycles[d]

\* C29: the step in which a device's adapter raises ends that device's run
\* with the error, before any send, and ends Swarm.run with it; from then on
\* Swarm.run has failed: it never returns normally, no device takes another
\* step, and no other device's error replaces the first.
C29_AdapterErrorPropagates ==
    [][/\ \A d \in Devices :
            (/\ Decide(d)
             /\ FormatRaised(uneven_row, payload[d])
             /\ ~iter'[d].skipped)
               => /\ pc'[d] = "format_error"
                  /\ proc' = "failed"
                  /\ ~iter'[d].called
                  /\ published' = published
                  /\ cycle' = cycle
       /\ (\E d \in Devices : pc[d] = "format_error")
               => /\ proc = "failed"
                  /\ proc' = "failed"
                  /\ pc' = pc
                  /\ cycle' = cycle
                  /\ published' = published
                  /\ disk' = disk
                  /\ Cardinality({d \in Devices : pc[d] = "format_error"}) = 1
      ]_vars

\* C29 witness: Swarm.run has failed with the adapter's error of one device
\* after both devices had a publish acknowledged, while the other device
\* waits in its sleep.
C29_Witness ==
    /\ proc = "failed"
    /\ uneven_row = 1
    /\ \E d, e \in Devices :
          /\ pc[d] = "format_error"
          /\ pc[e] = "sleep"
          /\ cycle[d] = 1
          /\ published[e] = 1

\* C30: a step of one device's task leaves every other device's cycle,
\* max_cycles and no_send_probability as they are, and the other device's
\* task where it is, with its locals; the source and the connection the
\* devices share are not changed either.
C30_StepLeavesOtherDevices ==
    [][\A d \in Devices :
         \/ /\ \A e \in Devices \ {d} :
                  /\ cycle'[e] = cycle[e]
                  /\ max_cycles'[e] = max_cycles[e]
                  /\ no_send_probability'[e] = no_send_probability[e]
                  /\ pc'[e] = pc[e]
                  /\ payload'[e] = payload[e]
                  /\ send_status'[e] = send_status[e]
                  /\ iter'[e] = iter[e]
                  /\ published'[e] = published[e]
            /\ config' = config
         \/ ~DeviceStep(d)
      ]_vars

\* C30 witness: a device has had two publishes acknowledged and is about to
\* increment its cycle, while the other device, skipped so far, is still at
\* cycle 0 in its sleep.
C30_Witness ==
    \E d, e \in Devices :
        /\ d # e
        /\ proc = "running"
        /\ run = 1
        /\ pc[d] = "sent"
        /\ send_status[d]
        /\ cycle[d] = 1
        /\ published[d] = 2
        /\ pc[e] = "sleep"
        /\ cycle[e] = 0
        /\ published[e] = 0

\* the position that follows a position of the snapshot write
AfterWritePc(at) ==
    IF at = "write_remove" THEN "write_open"
    ELSE IF at = "write_open" THEN "write_dump" ELSE "end"

\* C31: the snapshot writes of one swarm never overlap: while a device
\* task is inside its snapshot write (remove, open, dump) it owns the event
\* loop and no other device task is inside a snapshot write; as long as
\* the process lives, the next step is the writer's next step of the
\* write, the swarm file is changed by that step alone, and every other
\* device task stays where it is until the write is complete.
C31_SnapshotWritesNeverOverlap ==
    [][\A d \in Devices :
         /\ pc[d] \in WritePcs =>
               /\ running = d
               /\ \A e \in Devices \ {d} : pc[e] \notin WritePcs
               /\ proc' = "running" =>
                     /\ pc'[d] = AfterWritePc(pc[d])
                     /\ \A e \in Devices \ {d} : pc'[e] = pc[e]
         /\ (disk' # disk /\ running = d) => pc[d] \in WritePcs
      ]_vars

\* C31 witness: a device is in the middle of its snapshot write (the file
\* is removed, not yet rewritten) while the other device, which has had a
\* publish acknowledged and has written its own snapshot before, waits in
\* its sleep.
C31_Witness ==
    \E d \in Devices, e \in Devices :
        /\ d # e
        /\ proc = "running"
        /\ pc[d] = "write_open"
        /\ disk[SwarmFileOfSwarm] = Missing
        /\ pc[e] = "sleep"
        /\ published[e] >= 1
        /\ cycle[e] >= 1
        /\ IsLoopingSource(data_source)

\* C32: in a swarm on a looping CSV or SQLite source, whenever the process
\* runs and no device task owns the event loop (every task is at an await,
\* not yet started, or finished) and some publish has been acknowledged,
\* the swarm file is a complete snapshot that records, for every device of
\* the swarm, that device's in-memory cycle.
C32_SnapshotMatchesMemoryAtAwait ==
    (/\ data_source \in {"LoopingCsvDB", "LoopingSQLite3"}
     /\ proc = "running"
     /\ running = NoTask
     /\ \E d \in Devices : published[d] >= 1) =>
        /\ IsSwarmFile(disk[SwarmFileOfSwarm])
        /\ \A d \in Devices :
              disk[SwarmFileOfSwarm].devices[d].cycle = cycle[d]

\* C32 witness: both tasks are suspended in their sleep, one device has
\* had one publish acknowledged and the other two, and the swarm file
\* records cycle 1 and cycle 2.
C32_Witness ==
    \E d \in Devices, e \in Devices :
        /\ data_source \in {"LoopingCsvDB", "LoopingSQLite3"}
        /\ proc = "running"
        /\ running = NoTask
        /\ pc[d] = "sleep"
        /\ pc[e] = "sleep"
        /\ cycle[d] = 1
        /\ cycle[e] = 2
        /\ published[d] = 1
        /\ published[e] = 2
        /\ IsSwarmFile(disk[SwarmFileOfSwarm])
        /\ disk[SwarmFileOfSwarm].devices[d].cycle = 1
        /\ disk[SwarmFileOfSwarm].devices[e].cycle = 2

\* C33: a device on a looping CSV source with N >= 1 rows for its site
\* publishes the rows in file order with period N.  When a publish has just
\* been acknowledged, the row it carried is row (cycle mod N), and in
\* the first process, and in a second one that follows a process that
\* ended at an await, the number of publishes acknowledged to the device
\* before it, over all runs, is the cycle: the count and the cycle advance
\* together, so the j-th acknowledged publish after a start at cycle c0
\* carries row (c0 + j) mod N whatever was skipped or not acknowledged in
\* between.  (Each process that was stopped between an acknowledgement
\* and the snapshot puts the count one more ahead of the cycle that the
\* next process loads.)
C33_RowsInFileOrder ==
    \A d \in Devices :
        (/\ data_source = "LoopingCsvDB"
         /\ proc = "running"
         /\ pc[d] = "sent"
         /\ send_status[d]) =>
            /\ rows[d] >= 1
            /\ payload[d] = Row(cycle[d] % rows[d])
            /\ published[d] - (cycle[d] + 1) \in 0..(run - 1)
            /\ (run <= 2 /\ stopped # "killed") =>
                  published[d] = cycle[d] + 1

\* C33 witness: a device that can skip and whose sends can go
\* unacknowledged has its third publish acknowledged, in a process that
\* resumed at cycle 1 or 2: the publish carries row 0 again, as the first
\* did.
C33_Witness ==
    \E d \in Devices :
        /\ data_source = "LoopingCsvDB"
        /\ connection = "IotCoreMQTTConnection"
        /\ no_send_probability[d] = 50
        /\ rows[d] = 2
        /\ run = 2
        /\ stopped # "killed"
        /\ proc = "running"
        /\ pc[d] = "sent"
        /\ send_status[d]
        /\ published[d] = 3
        /\ cycle[d] = 2
        /\ payload[d] = Row(0)

\* the high-water-mark of site s in the state file of a directory
MarkIn(dir, s) ==
    IF KindOf(dir, "main") = "state" THEN dir["main"].state.sites[s] ELSE 0

\* C34 as claimed: when the object-store write of a send_payload call
\* succeeds after backoff has run the call again, for a row newer than the
\* site's high-water-mark in the state file, the state file records the
\* row's timestamp as the site's high-water-mark when the call returns.
C34_RetryWritesState ==
    [][(/\ uploader = "sending"
        /\ attempt.phase = "write"
        /\ attempt.retried
        /\ bucket' = Append(bucket, payloads[position])
        /\ MarkIn(state_files, payloads[position].site_id)
              < payloads[position].time) =>
            MarkIn(state_files', payloads[position].site_id)
                = payloads[position].time
      ]_vars

\* C35 as claimed: load_state returns the blank state only when neither
\* the main file nor the backup exists, and when the main file is there but
\* corrupted and the backup is missing or corrupted it raises instead of
\* returning a state.
C35_BlankOnlyWithoutFiles ==
    [][NewUploader =>
          LET main == KindOf(state_files, "main")
              backup == KindOf(state_files, "backup")
              Corrupted == {"empty", "damaged"}
          IN  /\ upload_state' = BlankState
                    => (main = "missing" /\ backup = "missing")
              /\ (main \in Corrupted /\ backup \in Corrupted \cup {"missing"})
                    => upload_state' \notin States]_vars

\* C36 as claimed: when the process stops inside write_state and the main
\* file and the backup both held a state before the call, the load_state of
\* the next process returns a state, and it is the state one of the files
\* held before the call or the state that was being written.
C36_StopInWriteIsSafe ==
    [][(/\ StopInWriteState
        /\ KindOf(state_files, "main") = "state"
        /\ KindOf(state_files, "backup") = "state") =>
            LoadState(state_files').result \in
                {state_files["main"].state, state_files["backup"].state,
                 upload_state}
      ]_vars

\* C37 as claimed: a send_payload call whose object-store write succeeds
\* has written one object, the payload, and it has written the state files
\* in that call if the payload changed the tracked state in that call and
\* has left them as they were if it did not (as when the payload is sent a
\* second time).
C37_StateWrittenIffChanged ==
    [][(/\ uploader = "sending"
        /\ attempt.phase = "write"
        /\ uploader' # "stopped"
        /\ Len(bucket') > Len(bucket)) =>
            /\ bucket' = Append(bucket, payloads[position])
            /\ attempt.changed => state_files' = WriteState(upload_state)
            /\ ~attempt.changed => state_files' = state_files
      ]_vars

KeySet(row) == {row[j] : j \in 1..Len(row)}

\* C39: for a batch of several rows that do not all have the same key
\* set, _format_payload raises and returns no envelope: ValueError when two
\* rows differ in length, and an error (IndexError, from the values
\* collected under a key that a row lacks) when all rows have the same length.
C39_UnevenBatchRejected ==
    (/\ values.shape = "batch"
     /\ Len(values.rows) >= 2
     /\ \E i, j \in 1..Len(values.rows) :
           KeySet(values.rows[i]) # KeySet(values.rows[j])
     /\ envelope # NoEnvelope) =>
        /\ envelope.tag \in {"ValueError", "IndexError"}
        /\ envelope.fields = <<>>
        /\ envelope.data = <<>>
        /\ (\E i, j \in 1..Len(values.rows) :
                Len(values.rows[i]) # Len(values.rows[j]))
              <=> envelope.tag = "ValueError"

\* C39 witness: a batch of two rows of two columns each, one column of
\* which differs, has been rejected.
C39_Witness ==
    /\ values.shape = "batch"
    /\ values.rows = <<(<<"temp", "BattV">>), (<<"temp", "DATE_TIME">>)>>
    /\ envelope = Raised("IndexError")

\* the callbacks made so far that are not a failure of a connection attempt
Deciding == SelectSeq(callbacks, LAMBDA k : k # "failure")

\* C40: connected_flag is true exactly when the connection has made a
\* success, resumed, interrupted or closed callback and the most recent of
\* them was success or resumed; so it is false before any callback, and a
\* failure callback leaves it as it is.  (A publisher restored from a
\* pickle has the flag of the pickled one.)
C40_FlagFollowsCallbacks ==
    connected_flag <=>
        (/\ Deciding # <<>>
         /\ Deciding[Len(Deciding)] \in {"success", "resumed"})

\* C40 witness: after closed, success and then failure, the flag is true.
C40_Witness ==
    /\ callbacks = <<"closed", "success", "failure">>
    /\ connected_flag

====
